---- MODULE Spec2Model ----
(***************************************************************************)
(* Model of the thicket storage core: the JSONL log (internal/storage      *)
(* jsonl.go), the SQLite cache (internal/storage/sqlite.go) and the Store  *)
(* that keeps them in sync (internal/storage/sync.go).                     *)
(*                                                                         *)
(* The JSONL file is held as the three lists ReadAllJSONL returns, in file *)
(* order.  The cache is held as its tables: sets of rows, with the PRIMARY *)
(* KEY and UNIQUE constraints of the schema enforced by the inserts.       *)
(* Ticket, comment and dependency IDs are small integers; their order      *)
(* stands for the string order sort.Slice uses.                            *)
(*                                                                         *)
(* Modification times are only ever compared for equality (the file's     *)
(* against the stored checkpoint).  A write of the file stamps it with a   *)
(* time that differs from every time still held anywhere, i.e. from the    *)
(* file's previous time and from the checkpoint; the least such positive   *)
(* number stands for it.  0 is the time of a file that does not exist.     *)
(***************************************************************************)
EXTENDS Integers, Sequences, FiniteSets, TLC

\* ---------------------------------------------------------------- bounds
MaxTicketID == 2
MaxCommentID == 1
MaxDependencyID == 2
MaxRecords == 3
MaxTime == 4
MaxShown == 3
MaxCloseCmds == 1
MaxWrites == 2
MaxRewrites == 1
MaxPriority == 2
MaxCreated == 2
NumProcesses == 2

\* ------------------------------------------------------------ data model
TicketIDs == 1..MaxTicketID
\* One ticket more for the specification of the dependency graph alone, so
\* that a chain of two edges and the edge that would close it exist.
GraphTicketIDs == 1..(MaxTicketID + 1)
CommentIDs == 1..MaxCommentID
DependencyIDs == 1..MaxDependencyID

StatusOpen == "open"
StatusClosed == "closed"
Statuses == {StatusOpen, StatusClosed}

DependencyBlockedBy == "blocked_by"
DependencyCreatedFrom == "created_from"
DependencyTypes == {DependencyBlockedBy, DependencyCreatedFrom}

ErrCircularDependency == "this would create a circular dependency"
ErrDuplicateDependency == "this dependency already exists"
ErrSelfDependency == "a ticket cannot depend on itself"
ErrNotFound == "ticket not found"
ErrInvalidID == "invalid ticket ID format"
ErrCache == "cache write failed"
ErrMetadata == "storing mod time failed"
ErrRebuild == "rebuilding cache failed"
ErrParse == "parsing line failed"
ErrRead == "reading JSONL failed"
OK == "nil"

\* Of the ticket types one is used; the empty string is the zero value of
\* the field.
TypeBug == "bug"
TypeNone == ""
Types == {TypeBug}

\* The tickets passed to the Store all have the first priority and the
\* first creation time.
Ticket == [id : TicketIDs, status : Statuses, type : Types,
           priority : {1}, created : {1}]
Comment == [id : CommentIDs, ticket_id : 1..1]
Dependency == [id : DependencyIDs, from_ticket_id : TicketIDs,
               to_ticket_id : TicketIDs, type : DependencyTypes]
\* The dependencies passed to the Store where every kind of record is
\* written: the blocked_by edges.
StoreDependency == {d \in Dependency : d.type = DependencyBlockedBy}
\* The dependencies passed to the Store where only edges are written: every
\* blocked_by edge of the graph tickets, and the created_from edges that
\* leave the first ticket.
GraphDependency ==
  {d \in [id : DependencyIDs, from_ticket_id : GraphTicketIDs,
          to_ticket_id : GraphTicketIDs, type : DependencyTypes] :
     d.type = DependencyCreatedFrom =>
       (d.from_ticket_id = 1 /\ d.to_ticket_id \in TicketIDs)}

\* Outcomes of the cache statements of one call: every statement works, the
\* statement that writes the tables fails, or the statement that writes the
\* metadata row fails.
Faults == {"none", "db", "meta"}

VARIABLES
  jsonl,           \* the log file: [tickets, comments, dependencies], file order
  modTime,         \* the log file's modification time; 0 when it does not exist
  dbTickets,       \* cache table tickets
  dbComments,      \* cache table comments
  dbDependencies,  \* cache table dependencies
  metadata,        \* cache table metadata: the values stored under jsonl_modtime
  store,           \* "closed" or "open": whether the process holds a Store
  rewrites,        \* how many times another process has rewritten the log file
  writer,          \* the call of WriteAllJSONL in progress, if any
  procs,           \* the processes that mutate the log side by side
  codec,           \* the log file line by line, as ReadAllJSONL scans it
  watch,           \* the file watcher: its goroutine, timers and channels
  tui,             \* the terminal interface: its list view and its commands
  cmd,             \* the add command in progress, if any
  pending,         \* history: what has happened to the log since the last successful Open
  last             \* history: the last call, its argument and its result

vars == <<jsonl, modTime, dbTickets, dbComments, dbDependencies, metadata,
          store, rewrites, writer, procs, codec, watch, tui, cmd, pending,
          last>>

logVars == <<jsonl, modTime>>
cacheVars == <<dbTickets, dbComments, dbDependencies>>

\* ------------------------------------------------------------ jsonl.go
\* sort.Slice on fewer than 12 elements is an insertion sort: an element is
\* moved left only past elements with a strictly larger ID.
InsertByID(sorted, x) ==
  LET k == Cardinality({i \in 1..Len(sorted) : sorted[i].id <= x.id})
  IN SubSeq(sorted, 1, k) \o <<x>> \o SubSeq(sorted, k + 1, Len(sorted))

RECURSIVE SortByID(_)
SortByID(s) ==
  IF s = <<>> THEN <<>>
  ELSE InsertByID(SortByID(SubSeq(s, 1, Len(s) - 1)), s[Len(s)])

\* The content WriteAllJSONL leaves in the file: each list sorted by ID.
WriteAllJSONL(ts, cs, ds) ==
  [tickets |-> SortByID(ts), comments |-> SortByID(cs), dependencies |-> SortByID(ds)]

\* json.Marshal of a record and the newline: one line of the file, a JSON
\* object with every field of the record.  bad is the set of the fields
\* whose value is not of the JSON type that the structs give the field; a
\* line that Marshal has written has none.
marshal(x) == [syntax |-> "object", json |-> x, bad |-> {}]

MarshalAll(seq) == [i \in 1..Len(seq) |-> marshal(seq[i])]

\* The lines of the file in the order of the three loops of WriteAllJSONL.
FileLines(content) ==
  MarshalAll(content.tickets) \o MarshalAll(content.comments)
    \o MarshalAll(content.dependencies)

\* ReadAllJSONL returns the three lists in file order.
ReadAllJSONL == jsonl

\* An append of the ticket after the last ticket, without the sort.
AppendJSONL_AtEnd(t) ==
  [tickets |-> Append(ReadAllJSONL.tickets, t),
   comments |-> ReadAllJSONL.comments,
   dependencies |-> ReadAllJSONL.dependencies]

AppendJSONL(t) ==
  WriteAllJSONL(Append(ReadAllJSONL.tickets, t), ReadAllJSONL.comments,
                ReadAllJSONL.dependencies)

AppendComment(c) ==
  WriteAllJSONL(ReadAllJSONL.tickets, Append(ReadAllJSONL.comments, c),
                ReadAllJSONL.dependencies)

AppendDependency(d) ==
  WriteAllJSONL(ReadAllJSONL.tickets, ReadAllJSONL.comments,
                Append(ReadAllJSONL.dependencies, d))

\* os.Stat: 0 for a file that does not exist, else its modification time.
GetJSONLModTime == modTime

\* The number of lines in the file.
Lines == Len(jsonl.tickets) + Len(jsonl.comments) + Len(jsonl.dependencies)

\* The modification time a write gives the file: none of the times in use.
FreshModTime ==
  CHOOSE n \in 1..3 : /\ n \notin ({modTime} \cup metadata)
                      /\ \A m \in 1..(n - 1) : m \in ({modTime} \cup metadata)

\* os.Create and the writes that follow: the file gets the content and a
\* fresh modification time.
WriteFile(content) ==
  /\ jsonl' = content
  /\ modTime' = FreshModTime

\* ------------------------------------------------------------ sqlite.go
\* GetMetadata returns "" when there is no row and syncFromJSONL then keeps
\* storedModTime at its zero value; otherwise the row holds the decimal
\* text of the timestamp, which ParseInt reads back.
GetMetadata ==
  IF metadata = {} THEN 0 ELSE CHOOSE v \in metadata : TRUE

\* INSERT OR REPLACE INTO metadata: one row per key.
SetMetadata(v) == {v}

\* The columns of the tickets table that the model keeps (of id, title,
\* description, status, priority, created, updated), and those that
\* UPDATE tickets sets.
TicketColumns == {"id", "status", "priority", "created"}
UpdatedColumns == {"status", "priority"}

\* The values InsertTicket binds: the fields of the ticket that have a column.
ticketRow(t) == [f \in (DOMAIN t) \cap TicketColumns |-> t[f]]

\* INSERT INTO tickets: id is the PRIMARY KEY.
InsertTicket(rows, t) ==
  IF \E r \in rows : r.id = t.id
  THEN [ok |-> FALSE, rows |-> rows]
  ELSE [ok |-> TRUE, rows |-> rows \cup {ticketRow(t)}]

\* UPDATE tickets SET ... with no WHERE: every row gets the values.
UpdateTicket_EveryRow(rows, t) ==
  IF \E r \in rows : r.id = t.id
  THEN [ok |-> TRUE,
        rows |-> {[f \in DOMAIN r |->
                     IF f \in UpdatedColumns THEN t[f] ELSE r[f]] : r \in rows}]
  ELSE [ok |-> FALSE, rows |-> rows]

\* UPDATE tickets SET ... WHERE id = ?: fails when no row was affected.
UpdateTicket(rows, t) ==
  IF \E r \in rows : r.id = t.id
  THEN LET old == CHOOSE r \in rows : r.id = t.id
           new == [f \in DOMAIN old |->
                     IF f \in UpdatedColumns THEN t[f] ELSE old[f]]
       IN [ok |-> TRUE, rows |-> (rows \ {old}) \cup {new}]
  ELSE [ok |-> FALSE, rows |-> rows]

\* Scan of a row of tickets into a ticket.Ticket: the fields that no column
\* is selected for keep their zero value.
scanTicket(r) == r @@ [type |-> TypeNone]

\* GetTicket: the ticket scanned from the row with the ID, or nil.
NoTicket == [none |-> TRUE]
GetTicket(id) ==
  IF \E r \in dbTickets : r.id = id
  THEN scanTicket(CHOOSE r \in dbTickets : r.id = id)
  ELSE NoTicket

\* INSERT INTO comments: id is the PRIMARY KEY.
InsertComment(rows, c) ==
  IF \E r \in rows : r.id = c.id
  THEN [ok |-> FALSE, rows |-> rows]
  ELSE [ok |-> TRUE, rows |-> rows \cup {c}]

\* INSERT INTO dependencies: id is the PRIMARY KEY and
\* (from_ticket_id, to_ticket_id, type) is UNIQUE.
InsertDependency(rows, d) ==
  IF \E r \in rows : \/ r.id = d.id
                     \/ /\ r.from_ticket_id = d.from_ticket_id
                        /\ r.to_ticket_id = d.to_ticket_id
                        /\ r.type = d.type
  THEN [ok |-> FALSE, rows |-> rows]
  ELSE [ok |-> TRUE, rows |-> rows \cup {d}]

\* SELECT COUNT(*) FROM dependencies WHERE from = ? AND to = ? AND type = ?
DependencyExists(fromTicketID, toTicketID, depType) ==
  \E r \in dbDependencies : /\ r.from_ticket_id = fromTicketID
                            /\ r.to_ticket_id = toTicketID
                            /\ r.type = depType

\* SELECT ... FROM dependencies WHERE from_ticket_id = ?
GetDependenciesFrom(ticketID) ==
  {r \in dbDependencies : r.from_ticket_id = ticketID}

\* The rows of dependencies whatever their type.
GetBlockingDependencies_AnyKind == dbDependencies

\* SELECT ... FROM dependencies WHERE type = 'blocked_by'
GetBlockingDependencies ==
  {r \in dbDependencies : r.type = DependencyBlockedBy}

\* The WHERE clause of ListReadyTickets, with two hops of blocked_by instead
\* of one.
readyRow_TwoHops(t) ==
  /\ t.status = StatusOpen
  /\ ~\E d \in dbDependencies, bt \in dbTickets :
        /\ d.to_ticket_id = bt.id
        /\ d.from_ticket_id = t.id
        /\ d.type = DependencyBlockedBy
        /\ \/ bt.status = StatusOpen
           \/ \E d2 \in dbDependencies, bt2 \in dbTickets :
                /\ d2.to_ticket_id = bt2.id
                /\ d2.from_ticket_id = bt.id
                /\ d2.type = DependencyBlockedBy
                /\ bt2.status = StatusOpen

\* The WHERE clause of ListReadyTickets: status open and no row of
\* dependencies JOIN tickets with the ticket as from, type blocked_by and
\* the joined ticket open.
readyRow(t) ==
  /\ t.status = StatusOpen
  /\ ~\E d \in dbDependencies, bt \in dbTickets :
        /\ d.to_ticket_id = bt.id
        /\ d.from_ticket_id = t.id
        /\ d.type = DependencyBlockedBy
        /\ bt.status = StatusOpen

\* The order with the keys exchanged: created first, then priority.
orderedBefore_CreatedFirst(a, b) ==
  \/ a.created < b.created
  \/ a.created = b.created /\ a.priority < b.priority

\* ORDER BY t.priority ASC, t.created ASC: whether row a sorts before row b.
orderedBefore(a, b) ==
  \/ a.priority < b.priority
  \/ a.priority = b.priority /\ a.created < b.created

\* The sort of the selected rows: a row is placed after every row that it
\* does not sort before, so rows equal in both keys keep the order of the scan.
InsertByOrder(sorted, x) ==
  LET k == Cardinality({i \in 1..Len(sorted) : ~orderedBefore(x, sorted[i])})
  IN SubSeq(sorted, 1, k) \o <<x>> \o SubSeq(sorted, k + 1, Len(sorted))

RECURSIVE SortByOrder(_)
SortByOrder(s) ==
  IF s = <<>> THEN <<>>
  ELSE InsertByOrder(SortByOrder(SubSeq(s, 1, Len(s) - 1)), s[Len(s)])

\* The orders in which a scan of the tickets table may visit its rows; SQL
\* leaves the order of rows equal in the ORDER BY keys to the scan.
TableScans ==
  {scan \in [1..Cardinality(dbTickets) -> dbTickets] :
     \A i, j \in DOMAIN scan : i # j => scan[i] # scan[j]}

\* ListReadyTickets: the selected rows in order, each scanned into a ticket.
ListReadyTickets(scan) ==
  LET rows == SortByOrder(SelectSeq(scan, readyRow))
  IN [i \in 1..Len(rows) |-> scanTicket(rows[i])]

\* Store.ListReady: the ready list of the cache.
ListReady(scan) == ListReadyTickets(scan)

\* The ready command: no ticket when the list is empty, else the first one.
Ready(scan) ==
  IF Len(ListReady(scan)) = 0 THEN NoTicket ELSE ListReady(scan)[1]

\* The inserts of RebuildFromAll, one list at a time; the first statement
\* that fails ends the rebuild.
RECURSIVE insertTickets(_, _)
insertTickets(rows, ts) ==
  IF ts = <<>> THEN [ok |-> TRUE, rows |-> rows]
  ELSE LET r == InsertTicket(rows, Head(ts))
       IN IF r.ok THEN insertTickets(r.rows, Tail(ts)) ELSE r

RECURSIVE insertComments(_, _)
insertComments(rows, cs) ==
  IF cs = <<>> THEN [ok |-> TRUE, rows |-> rows]
  ELSE LET r == InsertComment(rows, Head(cs))
       IN IF r.ok THEN insertComments(r.rows, Tail(cs)) ELSE r

RECURSIVE insertDependencies(_, _)
insertDependencies(rows, ds) ==
  IF ds = <<>> THEN [ok |-> TRUE, rows |-> rows]
  ELSE LET r == InsertDependency(rows, Head(ds))
       IN IF r.ok THEN insertDependencies(r.rows, Tail(ds)) ELSE r

\* A rebuild that forgets DELETE FROM comments: the comments of the log are
\* inserted next to the rows the table already holds.
RebuildFromAll_KeepsComments(ts, cs, ds) ==
  LET t == insertTickets({}, ts)
      c == insertComments(dbComments, cs)
      d == insertDependencies({}, ds)
  IN IF t.ok /\ c.ok /\ d.ok
     THEN [ok |-> TRUE, tickets |-> t.rows, comments |-> c.rows,
           dependencies |-> d.rows]
     ELSE [ok |-> FALSE, tickets |-> dbTickets, comments |-> dbComments,
           dependencies |-> dbDependencies]

\* A rebuild without DELETE FROM dependencies.
RebuildFromAll_KeepsDependencies(ts, cs, ds) ==
  LET t == insertTickets({}, ts)
      c == insertComments({}, cs)
      d == insertDependencies(dbDependencies, ds)
  IN IF t.ok /\ c.ok /\ d.ok
     THEN [ok |-> TRUE, tickets |-> t.rows, comments |-> c.rows,
           dependencies |-> d.rows]
     ELSE [ok |-> FALSE, tickets |-> dbTickets, comments |-> dbComments,
           dependencies |-> dbDependencies]

\* A rebuild whose statements are not in a transaction: what was deleted and
\* inserted before the statement that fails stays.
RebuildFromAll_NoTransaction(ts, cs, ds) ==
  LET t == insertTickets({}, ts)
      c == insertComments({}, cs)
      d == insertDependencies({}, ds)
  IN [ok |-> t.ok /\ c.ok /\ d.ok,
      tickets |-> t.rows,
      comments |-> IF t.ok THEN c.rows ELSE {},
      dependencies |-> IF t.ok /\ c.ok THEN d.rows ELSE {}]

\* RebuildFromAll: in one transaction, delete every row of the four tables
\* and insert the given lists.  A failed statement rolls the transaction
\* back, which leaves the tables as they were.
RebuildFromAll(ts, cs, ds) ==
  LET t == insertTickets({}, ts)
      c == insertComments({}, cs)
      d == insertDependencies({}, ds)
  IN IF t.ok /\ c.ok /\ d.ok
     THEN [ok |-> TRUE, tickets |-> t.rows, comments |-> c.rows,
           dependencies |-> d.rows]
     ELSE [ok |-> FALSE, tickets |-> dbTickets, comments |-> dbComments,
           dependencies |-> dbDependencies]

\* -------------------------------------------------------------- sync.go
\* blockedBy[A] = the tickets A is blocked by, built from the blocked_by rows.
blockedByMap(deps) ==
  [a \in GraphTicketIDs |-> {d.to_ticket_id : d \in {e \in deps : e.from_ticket_id = a}}]

\* A search that looks at the direct blockers of a ticket only.
canReach_DirectOnly(blockedBy, current, target, visited) ==
  [found |-> current = target \/ target \in blockedBy[current],
   visited |-> visited \cup {current}]

\* canReach of checkCircularDependency: depth-first search with one visited
\* map shared by the whole search.  The result carries the map, so that the
\* siblings of a ticket see what the search below their elder siblings has
\* visited.  The order in which the successors of a ticket are tried does
\* not change the answer.
RECURSIVE canReach(_, _, _, _)
RECURSIVE canReachAny(_, _, _, _)
canReach(blockedBy, current, target, visited) ==
  IF current = target THEN [found |-> TRUE, visited |-> visited]
  ELSE IF current \in visited THEN [found |-> FALSE, visited |-> visited]
  ELSE canReachAny(blockedBy, blockedBy[current], target, visited \cup {current})

canReachAny(blockedBy, nexts, target, visited) ==
  IF nexts = {} THEN [found |-> FALSE, visited |-> visited]
  ELSE LET next == CHOOSE n \in nexts : \A m \in nexts : n <= m
           r == canReach(blockedBy, next, target, visited)
       IN IF r.found THEN r
          ELSE canReachAny(blockedBy, nexts \ {next}, target, r.visited)

\* The same search with its work written down: calls is the number of
\* calls of canReach, expanded lists the tickets whose blockers the loop has
\* gone through, in the order in which they were marked visited.
RECURSIVE canReachCounted(_, _, _, _)
RECURSIVE canReachCountedAny(_, _, _, _)

\* A search whose visited map is that of the path from the start only: what
\* was visited below a blocker is forgotten when the loop goes on to the
\* next blocker.
canReachCountedAny_PerPath(blockedBy, nexts, target, work) ==
  IF nexts = {} THEN [found |-> FALSE] @@ work
  ELSE LET next == CHOOSE n \in nexts : \A m \in nexts : n <= m
           r == canReachCounted(blockedBy, next, target, work)
       IN IF r.found THEN r
          ELSE canReachCountedAny(blockedBy, nexts \ {next}, target,
                 [visited |-> work.visited, expanded |-> r.expanded,
                  calls |-> r.calls])

canReachCounted(blockedBy, current, target, work) ==
  LET called == [work EXCEPT !.calls = @ + 1]
  IN IF current = target THEN [found |-> TRUE] @@ called
     ELSE IF current \in called.visited THEN [found |-> FALSE] @@ called
     ELSE canReachCountedAny(blockedBy, blockedBy[current], target,
            [called EXCEPT !.visited = @ \cup {current},
                           !.expanded = Append(@, current)])

canReachCountedAny(blockedBy, nexts, target, work) ==
  IF nexts = {} THEN [found |-> FALSE] @@ work
  ELSE LET next == CHOOSE n \in nexts : \A m \in nexts : n <= m
           r == canReachCounted(blockedBy, next, target, work)
       IN IF r.found THEN r
          ELSE canReachCountedAny(blockedBy, nexts \ {next}, target,
                 [visited |-> r.visited, expanded |-> r.expanded,
                  calls |-> r.calls])

\* The search of checkCircularDependency(fromID, toID) and its work.
cycleSearch(fromID, toID) ==
  canReachCounted(blockedByMap(GetBlockingDependencies), toID, fromID,
                  [visited |-> {}, expanded |-> <<>>, calls |-> 0])

checkCircularDependency(fromID, toID) ==
  IF canReach(blockedByMap(GetBlockingDependencies), toID, fromID, {}).found
  THEN ErrCircularDependency
  ELSE OK

\* The checks AddDependency makes before it writes anything.
validateDependency(d) ==
  IF DependencyExists(d.from_ticket_id, d.to_ticket_id, d.type)
  THEN ErrDuplicateDependency
  ELSE IF d.type = DependencyBlockedBy
       THEN checkCircularDependency(d.from_ticket_id, d.to_ticket_id)
       ELSE OK

\* A GetBlockers that follows the rows of every type.
GetBlockers_AnyType(ticketID) ==
  {GetTicket(d.to_ticket_id) : d \in GetDependenciesFrom(ticketID)} \ {NoTicket}

\* GetBlockers: the tickets of the blocked_by rows that leave the ticket,
\* without those the tickets table does not have.
GetBlockers(ticketID) ==
  {GetTicket(d.to_ticket_id) :
     d \in {r \in GetDependenciesFrom(ticketID) : r.type = DependencyBlockedBy}}
  \ {NoTicket}

\* IsBlocked: whether one of the blockers is open.
IsBlocked(ticketID) ==
  \E b \in GetBlockers(ticketID) : b.status = StatusOpen

\* syncFromJSONL: what the cache holds afterwards and the error returned.
syncFromJSONL(fault) ==
  LET currentModTime == GetJSONLModTime
      storedModTime == GetMetadata
      r == RebuildFromAll(ReadAllJSONL.tickets, ReadAllJSONL.comments,
                          ReadAllJSONL.dependencies)
      kept == [tickets |-> dbTickets, comments |-> dbComments,
               dependencies |-> dbDependencies, metadata |-> metadata]
  IN IF currentModTime = storedModTime
     THEN [err |-> OK] @@ kept
     ELSE IF fault = "db"
     THEN [err |-> ErrRebuild] @@ kept
     ELSE IF ~r.ok
     THEN [err |-> ErrRebuild, tickets |-> r.tickets, comments |-> r.comments,
           dependencies |-> r.dependencies, metadata |-> metadata]
     ELSE IF fault = "meta"
     THEN [err |-> ErrMetadata, tickets |-> r.tickets, comments |-> r.comments,
           dependencies |-> r.dependencies, metadata |-> metadata]
     ELSE [err |-> OK, tickets |-> r.tickets, comments |-> r.comments,
           dependencies |-> r.dependencies,
           metadata |-> SetMetadata(currentModTime)]

\* updateJSONLModTime, called after the file has been written.
updateJSONLModTime(fault) ==
  IF fault = "meta" THEN UNCHANGED metadata
  ELSE metadata' = SetMetadata(modTime')

NoArg == [none |-> TRUE]

\* History of a mutation: a call that wrote the log and then failed to
\* write the cache tables is remembered until the next successful Open.
Record(op, arg, res, wroteLog, wroteCache) ==
  /\ last' = [op |-> op, arg |-> arg, res |-> res]
  /\ pending' = IF wroteLog /\ ~wroteCache
                THEN [pending EXCEPT !.failedWrite = TRUE]
                ELSE pending

\* Open: OpenDB, then syncFromJSONL; on error the database is closed again.
Open ==
  /\ store = "closed"
  /\ \E fault \in (IF GetJSONLModTime = GetMetadata THEN {"none"} ELSE Faults) :
       LET r == syncFromJSONL(fault)
       IN /\ dbTickets' = r.tickets
          /\ dbComments' = r.comments
          /\ dbDependencies' = r.dependencies
          /\ metadata' = r.metadata
          /\ store' = IF r.err = OK THEN "open" ELSE "closed"
          /\ last' = [op |-> "Open",
                      arg |-> [stale |-> GetJSONLModTime # GetMetadata,
                               again |-> last.op = "Open" /\ last.res = ErrMetadata,
                               failedWrite |-> pending.failedWrite,
                               rewritten |-> pending.rewritten],
                      res |-> r.err]
          /\ pending' = IF r.err = OK
                        THEN [failedWrite |-> FALSE, rewritten |-> FALSE]
                        ELSE pending
  /\ UNCHANGED <<logVars, rewrites, writer, codec, watch, tui, procs>>

Close ==
  /\ store = "open"
  /\ store' = "closed"
  /\ last' = [op |-> "Close", arg |-> NoArg, res |-> OK]
  /\ UNCHANGED <<logVars, cacheVars, metadata, rewrites, writer, codec, watch, tui, procs, pending>>

\* An Add that stores the checkpoint although InsertTicket failed.
Add_CheckpointWithoutCache(t) ==
  /\ store = "open"
  /\ Lines < MaxRecords
  /\ WriteFile(AppendJSONL(t))
  /\ \E fault \in Faults :
       LET r == InsertTicket(dbTickets, t)
       IN IF fault = "db" \/ ~r.ok
          THEN /\ UNCHANGED cacheVars
               /\ updateJSONLModTime("none")
               /\ Record("Add", t, ErrCache, TRUE, FALSE)
          ELSE /\ dbTickets' = r.rows
               /\ UNCHANGED <<dbComments, dbDependencies>>
               /\ updateJSONLModTime(fault)
               /\ Record("Add", t,
                         IF fault = "meta" THEN ErrMetadata ELSE OK, TRUE, TRUE)
  /\ UNCHANGED <<store, rewrites, writer, codec, watch, tui, procs>>

\* Store.Add: AppendJSONL, InsertTicket, updateJSONLModTime.
Add(t) ==
  /\ store = "open"
  /\ Lines < MaxRecords
  /\ WriteFile(AppendJSONL(t))
  /\ \E fault \in Faults :
       LET r == InsertTicket(dbTickets, t)
       IN IF fault = "db" \/ ~r.ok
          THEN /\ UNCHANGED <<cacheVars, metadata>>
               /\ Record("Add", t, ErrCache, TRUE, FALSE)
          ELSE /\ dbTickets' = r.rows
               /\ UNCHANGED <<dbComments, dbDependencies>>
               /\ updateJSONLModTime(fault)
               /\ Record("Add", t,
                         IF fault = "meta" THEN ErrMetadata ELSE OK, TRUE, TRUE)
  /\ UNCHANGED <<store, rewrites, writer, codec, watch, tui, procs>>

\* The list Update writes back: the first ticket with the ID is replaced.
replaceTicket(ts, t) ==
  LET i == CHOOSE k \in 1..Len(ts) :
             /\ ts[k].id = t.id
             /\ \A j \in 1..(k - 1) : ts[j].id # t.id
  IN [ts EXCEPT ![i] = t]

\* The rewrite of Update done with WriteJSONL, which writes the tickets and
\* nothing else.
updatedJSONL_TicketsOnly(t) ==
  [tickets |-> SortByID(replaceTicket(ReadAllJSONL.tickets, t)),
   comments |-> <<>>, dependencies |-> <<>>]

\* What Update writes to the file: the lists it read, with the first ticket
\* that has the ID replaced.
updatedJSONL(t) ==
  WriteAllJSONL(replaceTicket(ReadAllJSONL.tickets, t), ReadAllJSONL.comments,
                ReadAllJSONL.dependencies)

\* An Update without the test of found: a ticket that is not in the file is
\* appended to it.
Update_AppendsMissing(t) ==
  /\ store = "open"
  /\ WriteFile(IF \E k \in 1..Len(ReadAllJSONL.tickets) :
                     ReadAllJSONL.tickets[k].id = t.id
               THEN updatedJSONL(t) ELSE AppendJSONL(t))
  /\ \E fault \in Faults :
       LET r == UpdateTicket(dbTickets, t)
       IN IF fault = "db" \/ ~r.ok
          THEN /\ UNCHANGED <<cacheVars, metadata>>
               /\ Record("Update", t,
                         IF fault = "db" THEN ErrCache ELSE ErrNotFound,
                         TRUE, FALSE)
          ELSE /\ dbTickets' = r.rows
               /\ UNCHANGED <<dbComments, dbDependencies>>
               /\ updateJSONLModTime(fault)
               /\ Record("Update", t,
                         IF fault = "meta" THEN ErrMetadata ELSE OK,
                         TRUE, TRUE)
  /\ UNCHANGED <<store, rewrites, writer, codec, watch, tui, cmd, procs>>

\* Store.Update: ReadAllJSONL, replace, WriteAllJSONL, UpdateTicket,
\* updateJSONLModTime.
Update(t) ==
  /\ store = "open"
  /\ IF ~\E k \in 1..Len(ReadAllJSONL.tickets) : ReadAllJSONL.tickets[k].id = t.id
     THEN /\ UNCHANGED <<logVars, cacheVars, metadata>>
          /\ Record("Update", t, ErrNotFound, FALSE, FALSE)
     ELSE /\ WriteFile(updatedJSONL(t))
          /\ \E fault \in Faults :
               LET r == UpdateTicket(dbTickets, t)
               IN IF fault = "db" \/ ~r.ok
                  THEN /\ UNCHANGED <<cacheVars, metadata>>
                       /\ Record("Update", t,
                                 IF fault = "db" THEN ErrCache ELSE ErrNotFound,
                                 TRUE, FALSE)
                  ELSE /\ dbTickets' = r.rows
                       /\ UNCHANGED <<dbComments, dbDependencies>>
                       /\ updateJSONLModTime(fault)
                       /\ Record("Update", t,
                                 IF fault = "meta" THEN ErrMetadata ELSE OK,
                                 TRUE, TRUE)
  /\ UNCHANGED <<store, rewrites, writer, codec, watch, tui, cmd, procs>>

\* Store.AddComment: AppendComment, InsertComment, updateJSONLModTime.
AddComment(c) ==
  /\ store = "open"
  /\ Lines < MaxRecords
  /\ WriteFile(AppendComment(c))
  /\ \E fault \in Faults :
       LET r == InsertComment(dbComments, c)
       IN IF fault = "db" \/ ~r.ok
          THEN /\ UNCHANGED <<cacheVars, metadata>>
               /\ Record("AddComment", c, ErrCache, TRUE, FALSE)
          ELSE /\ dbComments' = r.rows
               /\ UNCHANGED <<dbTickets, dbDependencies>>
               /\ updateJSONLModTime(fault)
               /\ Record("AddComment", c,
                         IF fault = "meta" THEN ErrMetadata ELSE OK, TRUE, TRUE)
  /\ UNCHANGED <<store, rewrites, writer, codec, watch, tui, cmd, procs>>

\* An AddDependency that appends to the log before it runs its checks.
AddDependency_AppendBeforeCheck(d) ==
  /\ store = "open"
  /\ Lines < MaxRecords
  /\ WriteFile(AppendDependency(d))
  /\ LET v == validateDependency(d)
     IN IF v # OK
        THEN /\ UNCHANGED <<cacheVars, metadata>>
             /\ Record("AddDependency", d, v, TRUE, FALSE)
        ELSE \E fault \in Faults :
               LET r == InsertDependency(dbDependencies, d)
               IN IF fault = "db" \/ ~r.ok
                  THEN /\ UNCHANGED <<cacheVars, metadata>>
                       /\ Record("AddDependency", d, ErrCache, TRUE, FALSE)
                  ELSE /\ dbDependencies' = r.rows
                       /\ UNCHANGED <<dbTickets, dbComments>>
                       /\ updateJSONLModTime(fault)
                       /\ Record("AddDependency", d,
                                 IF fault = "meta" THEN ErrMetadata ELSE OK,
                                 TRUE, TRUE)
  /\ UNCHANGED <<store, rewrites, writer, codec, watch, tui, procs>>

\* Store.AddDependency: DependencyExists, checkCircularDependency,
\* AppendDependency, InsertDependency, updateJSONLModTime.
AddDependency(d) ==
  /\ store = "open"
  /\ LET v == validateDependency(d)
     IN IF v # OK
        THEN /\ UNCHANGED <<logVars, cacheVars, metadata>>
             /\ Record("AddDependency", d, v, FALSE, FALSE)
        ELSE /\ Lines < MaxRecords
             /\ WriteFile(AppendDependency(d))
             /\ \E fault \in Faults :
                  LET r == InsertDependency(dbDependencies, d)
                  IN IF fault = "db" \/ ~r.ok
                     THEN /\ UNCHANGED <<cacheVars, metadata>>
                          /\ Record("AddDependency", d, ErrCache, TRUE, FALSE)
                     ELSE /\ dbDependencies' = r.rows
                          /\ UNCHANGED <<dbTickets, dbComments>>
                          /\ updateJSONLModTime(fault)
                          /\ Record("AddDependency", d,
                                    IF fault = "meta" THEN ErrMetadata ELSE OK,
                                    TRUE, TRUE)
  /\ UNCHANGED <<store, rewrites, writer, codec, watch, tui, procs>>

\* ------------------------------------------------- outside the Store
\* The records used where other processes write the file too: open
\* tickets, the comment, and blocked_by dependencies between two different
\* tickets with the first ID.
PulledTicket == {t \in Ticket : t.status = StatusOpen}
PulledDependency ==
  {d \in Dependency : /\ d.id = 1
                      /\ d.type = DependencyBlockedBy
                      /\ d.from_ticket_id # d.to_ticket_id}

\* What another process (an editor, a pull from version control) may leave
\* in the file: any content of at most one ticket, one comment and one
\* dependency, in the order ReadAllJSONL would return them.
ExternalContents ==
  {[tickets |-> ts, comments |-> cs, dependencies |-> ds] :
     ts \in {<<>>} \cup {<<t>> : t \in PulledTicket},
     cs \in {<<>>} \cup {<<c>> : c \in Comment},
     ds \in {<<>>} \cup {<<d>> : d \in PulledDependency}}

ExternalRewrite(content) ==
  /\ Len(content.tickets) + Len(content.comments) + Len(content.dependencies)
       <= MaxRecords
  /\ rewrites < MaxRewrites
  /\ rewrites' = rewrites + 1
  /\ WriteFile(content)
  /\ pending' = [pending EXCEPT !.rewritten = TRUE]
  /\ last' = [op |-> "ExternalRewrite", arg |-> NoArg, res |-> OK]
  /\ UNCHANGED <<cacheVars, metadata, store, writer, codec, watch, tui, cmd, procs>>

\* The log file is removed (a checkout of a revision without it, a clean
\* of the work tree): os.Stat and os.Open then find no file.
ExternalRemove ==
  /\ GetJSONLModTime # 0
  /\ rewrites < MaxRewrites
  /\ rewrites' = rewrites + 1
  /\ jsonl' = [tickets |-> <<>>, comments |-> <<>>, dependencies |-> <<>>]
  /\ modTime' = 0
  /\ pending' = [pending EXCEPT !.rewritten = TRUE]
  /\ last' = [op |-> "ExternalRemove", arg |-> NoArg, res |-> OK]
  /\ UNCHANGED <<cacheVars, metadata, store, writer, codec, watch, tui, cmd, procs>>

\* ---------------------------------------- WriteAllJSONL, write by write
\* The file after os.Create: no line.
EmptyFile == [tickets |-> <<>>, comments |-> <<>>, dependencies |-> <<>>]

\* The call starts: the lists are sorted and os.Create truncates the file.
\* The writer remembers the content it found and the content it is to write.
WriteAllBegin(ts, cs, ds) ==
  /\ writer.pc # "writing"
  /\ Len(ts) + Len(cs) + Len(ds) <= MaxRecords
  /\ writer' = [pc |-> "writing", old |-> jsonl,
                new |-> WriteAllJSONL(ts, cs, ds),
                todo |-> WriteAllJSONL(ts, cs, ds)]
  /\ WriteFile(EmptyFile)
  /\ UNCHANGED <<cacheVars, metadata, store, rewrites, procs, codec, watch, tui, cmd, pending, last>>

\* One file.Write: the next line, tickets first, then comments, then
\* dependencies.
WriteAllLine ==
  /\ writer.pc = "writing"
  /\ writer.todo # EmptyFile
  /\ LET kind == IF writer.todo.tickets # <<>> THEN "tickets"
                 ELSE IF writer.todo.comments # <<>> THEN "comments"
                 ELSE "dependencies"
     IN /\ WriteFile([jsonl EXCEPT ![kind] = Append(@, Head(writer.todo[kind]))])
        /\ writer' = [writer EXCEPT !.todo[kind] = Tail(@)]
  /\ UNCHANGED <<cacheVars, metadata, store, rewrites, procs, codec, watch, tui, cmd, pending, last>>

\* Every line is written: the file is closed and the call returns nil.
WriteAllReturn ==
  /\ writer.pc = "writing"
  /\ writer.todo = EmptyFile
  /\ writer' = [writer EXCEPT !.pc = "idle"]
  /\ UNCHANGED <<logVars, cacheVars, metadata, store, rewrites, procs, codec, watch, tui, cmd, pending,
                 last>>

\* The writing process stops where it is.
WriteAllStop ==
  /\ writer.pc = "writing"
  /\ writer' = [writer EXCEPT !.pc = "stopped"]
  /\ UNCHANGED <<logVars, cacheVars, metadata, store, rewrites, procs, codec, watch, tui, cmd, pending,
                 last>>

\* ------------------------------------------- two processes, one project
\* Each process holds its own Store on the same log file and the same cache
\* file; nothing locks the log.  A mutation reads the whole file, and later
\* rewrites it from what it read.
Procs == 1..NumProcesses

\* A process between two calls; acked holds the IDs of the tickets whose Add
\* has returned nil in the process.
ProcIdle(acked) ==
  [pc |-> "idle", op |-> "none", arg |-> NoArg, seen |-> EmptyFile,
   acked |-> acked]

\* The tickets the processes add are open, and their updates close them.
AddedTicket == {t \in Ticket : t.status = StatusOpen}
ClosedTicket == {t \in Ticket : t.status = StatusClosed}

\* Store.Add, first half: AppendJSONL reads the file.
ProcAddRead(p, t) ==
  /\ procs[p].pc = "idle"
  /\ Lines < MaxRecords
  /\ procs' = [procs EXCEPT ![p].pc = "read", ![p].op = "Add", ![p].arg = t,
                            ![p].seen = ReadAllJSONL]
  /\ UNCHANGED <<logVars, cacheVars, metadata, store, rewrites, writer, codec, watch, tui, cmd,
                 pending, last>>

\* Store.Update, first half: ReadAllJSONL; a ticket that is not in the file
\* ends the call with an error.
ProcUpdateRead(p, t) ==
  /\ procs[p].pc = "idle"
  /\ \E i \in 1..Len(ReadAllJSONL.tickets) : ReadAllJSONL.tickets[i].id = t.id
  /\ procs' = [procs EXCEPT ![p].pc = "read", ![p].op = "Update", ![p].arg = t,
                            ![p].seen = ReadAllJSONL]
  /\ UNCHANGED <<logVars, cacheVars, metadata, store, rewrites, writer, codec, watch, tui, cmd,
                 pending, last>>

\* The second half with the file read again at the time of the write.
ProcWrite_ReadsAgain(p) ==
  /\ procs[p].pc = "read"
  /\ procs[p].op = "Add"
  /\ WriteFile(WriteAllJSONL(Append(jsonl.tickets, procs[p].arg),
                             jsonl.comments, jsonl.dependencies))
  /\ LET r == InsertTicket(dbTickets, procs[p].arg)
     IN /\ dbTickets' = r.rows
        /\ metadata' = IF r.ok THEN SetMetadata(modTime') ELSE metadata
        /\ procs' = [procs EXCEPT ![p] = ProcIdle(
                       IF r.ok THEN @.acked \cup {procs[p].arg.id} ELSE @.acked)]
  /\ UNCHANGED <<dbComments, dbDependencies, store, rewrites, writer, codec, watch, tui, cmd,
                 pending, last>>

\* The second half of Store.Add and of Store.Update: WriteAllJSONL of what
\* was read with the ticket appended or replaced, then the cache statement,
\* then the checkpoint.  The IDs of the tickets whose Add returned nil are
\* kept.
ProcWrite(p) ==
  /\ procs[p].pc = "read"
  /\ LET seen == procs[p].seen
         t == procs[p].arg
         ts == IF procs[p].op = "Add" THEN Append(seen.tickets, t)
               ELSE replaceTicket(seen.tickets, t)
         r == IF procs[p].op = "Add" THEN InsertTicket(dbTickets, t)
              ELSE UpdateTicket(dbTickets, t)
     IN /\ WriteFile(WriteAllJSONL(ts, seen.comments, seen.dependencies))
        /\ dbTickets' = r.rows
        /\ metadata' = IF r.ok THEN SetMetadata(modTime') ELSE metadata
        /\ procs' = [procs EXCEPT ![p] = ProcIdle(
                       IF r.ok /\ procs[p].op = "Add"
                       THEN @.acked \cup {t.id} ELSE @.acked)]
  /\ UNCHANGED <<dbComments, dbDependencies, store, rewrites, writer, codec, watch, tui, cmd,
                 pending, last>>

\* ------------------------------------------------ the file line by line
\* An ID is a string; the model writes IDs as numbers and the empty string,
\* the zero value of a string field, as 0.
NoID == 0

\* The zero values of the structs that ReadAllJSONL decodes into.
ZeroRawRecord == [ticket_id |-> NoID, from_ticket_id |-> NoID]
ZeroTicket ==
  [id |-> NoID, status |-> "", type |-> TypeNone, priority |-> 0, created |-> 0]
ZeroComment == [id |-> NoID, ticket_id |-> NoID]
ZeroDependency ==
  [id |-> NoID, from_ticket_id |-> NoID, to_ticket_id |-> NoID, type |-> ""]

\* json.Unmarshal of an object into a struct: a field of the struct takes
\* the value the object has under its name and keeps its zero value when
\* the object has no such name; names the struct does not have are
\* ignored.
Unmarshal(line, zero) ==
  [f \in DOMAIN zero |->
     IF f \in DOMAIN line.json THEN line.json[f] ELSE zero[f]]

\* json.Unmarshal returns an error for text that is not JSON and for a
\* value whose type the field of the struct cannot take.
UnmarshalFails(line, zero) ==
  \/ line.syntax = "garbage"
  \/ line.bad \cap DOMAIN zero # {}

\* What ReadAllJSONL returns on an error: no list, and the number of the
\* line in the message.
ReadError(n) ==
  [err |-> ErrParse, line |-> n, tickets |-> <<>>, comments |-> <<>>,
   dependencies |-> <<>>]

\* A scan that leaves out the lines it cannot decode.
RECURSIVE readFrom_SkipsBadLines(_, _, _)
readFrom_SkipsBadLines(lines, n, acc) ==
  IF n > Len(lines) THEN acc
  ELSE LET line == lines[n]
           raw == Unmarshal(line, ZeroRawRecord)
           kind == IF raw.from_ticket_id # NoID THEN "dependencies"
                   ELSE IF raw.ticket_id # NoID THEN "comments"
                   ELSE "tickets"
           zero == IF kind = "dependencies" THEN ZeroDependency
                   ELSE IF kind = "comments" THEN ZeroComment
                   ELSE ZeroTicket
       IN IF line.syntax = "blank" \/ UnmarshalFails(line, ZeroRawRecord)
          THEN readFrom_SkipsBadLines(lines, n + 1, acc)
          ELSE IF UnmarshalFails(line, zero)
          THEN readFrom_SkipsBadLines(lines, n + 1, acc)
          ELSE readFrom_SkipsBadLines(lines, n + 1,
                 [acc EXCEPT ![kind] = Append(@, Unmarshal(line, zero))])

\* The loop of ReadAllJSONL from line n on: an empty line is passed over;
\* the line is decoded into a rawRecord; a from_ticket_id that is not empty
\* makes it a dependency, else a ticket_id that is not empty makes it a
\* comment, else it is a ticket; the line is decoded again into the struct
\* of its kind.  Either decoding can fail, and the scan ends there.
RECURSIVE readFrom(_, _, _)
readFrom(lines, n, acc) ==
  IF n > Len(lines) THEN acc
  ELSE LET line == lines[n]
           raw == Unmarshal(line, ZeroRawRecord)
           kind == IF raw.from_ticket_id # NoID THEN "dependencies"
                   ELSE IF raw.ticket_id # NoID THEN "comments"
                   ELSE "tickets"
           zero == IF kind = "dependencies" THEN ZeroDependency
                   ELSE IF kind = "comments" THEN ZeroComment
                   ELSE ZeroTicket
       IN IF line.syntax = "blank"
          THEN readFrom(lines, n + 1, acc)
          ELSE IF UnmarshalFails(line, ZeroRawRecord)
          THEN ReadError(n)
          ELSE IF UnmarshalFails(line, zero)
          THEN ReadError(n)
          ELSE readFrom(lines, n + 1,
                 [acc EXCEPT ![kind] = Append(@, Unmarshal(line, zero))])

\* ReadAllJSONL on the lines of a file.
readAllLines(lines) ==
  readFrom(lines, 1, [err |-> OK, line |-> 0, tickets |-> <<>>,
                      comments |-> <<>>, dependencies |-> <<>>])

\* No read has been made of the file as it is.
NoRead ==
  [err |-> "none", line |-> 0, tickets |-> <<>>, comments |-> <<>>,
   dependencies |-> <<>>]

\* The records given to WriteAllJSONL: open tickets, and comments and
\* dependencies whose reference to their ticket is set or empty.
CodecTicket == {t \in Ticket : t.status = StatusOpen}
CodecComment == [id : CommentIDs, ticket_id : {NoID, 1}]
CodecDependency ==
  [id : 1..1, from_ticket_id : {NoID, 1}, to_ticket_id : {MaxTicketID},
   type : {DependencyBlockedBy}]

\* The lists of at most one or two of the records, without a repeated one.
UpTo1(S) == {<<>>} \cup {<<x>> : x \in S}
UpTo2(S) ==
  UpTo1(S) \cup ({<<x, y>> : x \in S, y \in S} \ {<<x, x>> : x \in S})

\* WriteAllJSONL called on lists where there is no file yet, as the tests of
\* jsonl.go call it in a directory of their own.
CodecWriteAll(ts, cs, ds) ==
  /\ GetJSONLModTime = 0
  /\ Len(ts) + Len(cs) + Len(ds) <= MaxRecords
  /\ codec' = [lines |-> FileLines(WriteAllJSONL(ts, cs, ds)),
               input |-> [tickets |-> ts, comments |-> cs, dependencies |-> ds],
               edited |-> FALSE, result |-> NoRead]
  /\ modTime' = FreshModTime
  /\ UNCHANGED <<jsonl, cacheVars, metadata, store, rewrites, writer, procs,
                 watch, tui, cmd, pending, last>>

\* Lines that another program or an editor leaves in the file: an empty
\* line, text that is not JSON, an object whose id is a number, an object
\* whose ticket_id is a number, and objects that have the names ticket_id
\* and from_ticket_id with and without a value.
EditedLine ==
  {[syntax |-> "blank", json |-> [id |-> NoID], bad |-> {}],
   [syntax |-> "garbage", json |-> [id |-> NoID], bad |-> {}],
   [syntax |-> "object", json |-> [id |-> 1], bad |-> {"id"}],
   [syntax |-> "object", json |-> [id |-> 1, ticket_id |-> 1],
    bad |-> {"ticket_id"}],
   [syntax |-> "object",
    json |-> [id |-> 1, ticket_id |-> 1, from_ticket_id |-> NoID], bad |-> {}],
   [syntax |-> "object",
    json |-> [id |-> 1, ticket_id |-> NoID, from_ticket_id |-> 1,
              to_ticket_id |-> MaxTicketID, type |-> DependencyBlockedBy],
    bad |-> {}]}

\* The file is changed once after it was written: a line is put in the
\* place of line i, or after the last line.
CodecEdit(i, line) ==
  /\ ~codec.edited
  /\ i \in 1..(Len(codec.lines) + 1)
  /\ i <= MaxRecords
  /\ codec' = [codec EXCEPT
                 !.lines = IF i <= Len(@) THEN [@ EXCEPT ![i] = line]
                           ELSE Append(@, line),
                 !.edited = TRUE, !.result = NoRead]
  /\ modTime' = FreshModTime
  /\ UNCHANGED <<jsonl, cacheVars, metadata, store, rewrites, writer, procs,
                 watch, tui, cmd, pending, last>>

\* ReadAllJSONL called on the file.
CodecReadAll ==
  /\ codec.result = NoRead
  /\ codec' = [codec EXCEPT !.result = readAllLines(codec.lines)]
  /\ UNCHANGED <<logVars, cacheVars, metadata, store, rewrites, writer, procs,
                 watch, tui, cmd, pending, last>>

\* syncFromJSONL on the lines of the file, every cache statement working.
syncFromLines(lines) ==
  LET currentModTime == GetJSONLModTime
      storedModTime == GetMetadata
      read == readAllLines(lines)
      r == RebuildFromAll(read.tickets, read.comments, read.dependencies)
      kept == [tickets |-> dbTickets, comments |-> dbComments,
               dependencies |-> dbDependencies, metadata |-> metadata]
  IN IF currentModTime = storedModTime
     THEN [err |-> OK] @@ kept
     ELSE IF read.err # OK
     THEN [err |-> ErrRead] @@ kept
     ELSE IF ~r.ok
     THEN [err |-> ErrRebuild, tickets |-> r.tickets, comments |-> r.comments,
           dependencies |-> r.dependencies, metadata |-> metadata]
     ELSE [err |-> OK, tickets |-> r.tickets, comments |-> r.comments,
           dependencies |-> r.dependencies,
           metadata |-> SetMetadata(currentModTime)]

\* Open on the file: OpenDB, then syncFromJSONL; on error the database is
\* closed again.
CodecOpen ==
  /\ store = "closed"
  /\ LET r == syncFromLines(codec.lines)
     IN /\ dbTickets' = r.tickets
        /\ dbComments' = r.comments
        /\ dbDependencies' = r.dependencies
        /\ metadata' = r.metadata
        /\ store' = IF r.err = OK THEN "open" ELSE "closed"
        /\ last' = [op |-> "Open",
                    arg |-> [stale |-> GetJSONLModTime # GetMetadata,
                             again |-> FALSE, failedWrite |-> FALSE,
                             rewritten |-> FALSE],
                    res |-> r.err]
  /\ UNCHANGED <<logVars, rewrites, writer, procs, codec, watch, tui, cmd, pending>>

\* ------------------------------------------------------------ watcher.go
\* The debounce interval in ticks of the clock.
Debounce == 2

\* The watcher before the first write: the goroutine runs its loop, no timer
\* has been made, nothing waits on the notification channel.
\*   now          the clock
\*   writes       the times of the writes to the watched file
\*   events       the Write events not yet taken from watcher.Events
\*   eventsClosed watcher.Events is closed
\*   done         the channel done is closed
\*   chClosed     the notification channel is closed
\*   loop         the goroutine: "running" or "returned"
\*   timer        the timer the variable timer points to
\*   started      callbacks of fired timers that have not reached their select
\*   parked       callbacks blocked in their select
\*   receiver     the reader of the channel: "idle", "waiting" or "stopped"
\*   received     the messages delivered: when, after how many writes, and
\*                whether cleanup had returned
\*   cleanup      the cleanup function: "none", "doneClosed" or "returned"
\*   panicked     a send on the closed channel has panicked
\*   late         a timer has fired while an event waited in watcher.Events,
\*                or an event was handled after the timer before it had fired
WatchStart ==
  [now |-> 0, writes |-> <<>>, events |-> 0, eventsClosed |-> FALSE,
   done |-> FALSE, chClosed |-> FALSE, loop |-> "running",
   timer |-> [state |-> "none", deadline |-> 0], started |-> 0, parked |-> 0,
   receiver |-> "idle", received |-> <<>>, cleanup |-> "none",
   panicked |-> FALSE, late |-> FALSE]

\* What the actions of the watcher leave alone.
storeVars == <<jsonl, modTime, dbTickets, dbComments, dbDependencies, metadata,
               store, rewrites, writer, procs, codec, cmd, pending, last>>

\* The record of a message that is delivered now.
Delivered ==
  [at |-> watch.now, writes |-> Len(watch.writes),
   afterCleanup |-> watch.cleanup = "returned"]

\* Time passes.  The clock of the model stops at MaxTime, or at the deadline
\* of the armed timer when that is later.
Tick ==
  /\ ~watch.panicked
  /\ \/ watch.now < MaxTime
     \/ watch.timer.state = "armed" /\ watch.now < watch.timer.deadline
  /\ watch' = [watch EXCEPT !.now = @ + 1]
  /\ UNCHANGED <<storeVars, tui>>

\* The watcher after a write to the watched file: fsnotify queues a Write
\* event.
fileWritten ==
  [watch EXCEPT !.writes = Append(@, watch.now), !.events = @ + 1]

\* A write to the watched file.
WatchWrite ==
  /\ ~watch.panicked
  /\ ~watch.eventsClosed
  /\ Len(watch.writes) < MaxWrites
  /\ watch' = fileWritten
  /\ UNCHANGED <<storeVars, tui>>

\* A loop that makes a new timer and lets the one it holds run: the
\* callback of the old timer starts.
LoopEvent_KeepsTimer ==
  /\ ~watch.panicked
  /\ watch.loop = "running"
  /\ watch.events > 0
  /\ watch' = [watch EXCEPT
                 !.events = @ - 1,
                 !.timer = [state |-> "armed",
                            deadline |-> watch.now + Debounce],
                 !.started = IF watch.timer.state = "armed" THEN @ + 1 ELSE @]
  /\ UNCHANGED <<storeVars, tui>>

\* The loop takes a Write event: it stops the timer it holds and makes a new
\* one with time.AfterFunc.  Stop has no effect on a timer that has fired.
LoopEvent ==
  /\ ~watch.panicked
  /\ watch.loop = "running"
  /\ watch.events > 0
  /\ watch' = [watch EXCEPT
                 !.events = @ - 1,
                 !.timer = [state |-> "armed",
                            deadline |-> watch.now + Debounce],
                 !.late = @ \/ watch.timer.state = "fired"]
  /\ UNCHANGED <<storeVars, tui>>

\* The loop takes the case <-done: it stops the timer, returns, and the
\* deferred close(ch) runs.
LoopDone ==
  /\ ~watch.panicked
  /\ watch.loop = "running"
  /\ watch.done
  /\ watch' = [watch EXCEPT
                 !.loop = "returned",
                 !.chClosed = TRUE,
                 !.timer.state = IF @ = "armed" THEN "stopped" ELSE @]
  /\ UNCHANGED <<storeVars, tui>>

\* The loop finds watcher.Events (or watcher.Errors) closed: it returns and
\* the deferred close(ch) runs; the timer is left as it is.  A callback
\* blocked in its send panics when the channel is closed.
LoopEventsClosed ==
  /\ ~watch.panicked
  /\ watch.loop = "running"
  /\ watch.eventsClosed
  /\ watch' = [watch EXCEPT
                 !.loop = "returned",
                 !.chClosed = TRUE,
                 !.panicked = watch.parked > 0]
  /\ UNCHANGED <<storeVars, tui>>

\* The timer expires: the runtime starts the callback in its own goroutine.
\* An event that waits in watcher.Events has not stopped the timer in time.
TimerFire ==
  /\ ~watch.panicked
  /\ watch.timer.state = "armed"
  /\ watch.now >= watch.timer.deadline
  /\ watch' = [watch EXCEPT !.timer.state = "fired", !.started = @ + 1,
                            !.late = @ \/ watch.events > 0]
  /\ UNCHANGED <<storeVars, tui>>

\* The callback reaches its select.  The send can proceed when a reader
\* waits, and it proceeds, with a panic, when the channel is closed; the
\* case <-done can proceed when done is closed.  Of the cases that can
\* proceed the runtime takes any one; when none can, the callback blocks.
CallbackSelect ==
  /\ ~watch.panicked
  /\ watch.started > 0
  /\ \/ /\ watch.receiver = "waiting"
        /\ ~watch.chClosed
        /\ watch' = [watch EXCEPT
                       !.started = @ - 1,
                       !.receiver = "idle",
                       !.received = Append(@, Delivered)]
     \/ /\ watch.chClosed
        /\ watch' = [watch EXCEPT !.started = @ - 1, !.panicked = TRUE]
     \/ /\ watch.done
        /\ watch' = [watch EXCEPT !.started = @ - 1]
     \/ /\ watch.receiver # "waiting"
        /\ ~watch.chClosed
        /\ ~watch.done
        /\ watch' = [watch EXCEPT !.started = @ - 1, !.parked = @ + 1]
  /\ UNCHANGED <<storeVars, tui>>

\* The watcher after a receive on the channel has started.
waitForFileChange ==
  IF watch.parked > 0
  THEN [watch EXCEPT !.parked = @ - 1, !.received = Append(@, Delivered)]
  ELSE [watch EXCEPT !.receiver = "waiting"]

\* The reader starts a receive on the channel (waitForFileChange, or the
\* select of a test).  A blocked callback hands over its message at once.
ReceiverWait ==
  /\ ~watch.panicked
  /\ watch.receiver = "idle"
  /\ watch' = waitForFileChange
  /\ UNCHANGED <<storeVars, tui>>

\* A reader that waits when the channel is closed gets the zero value and
\* ok = false.
ReceiverClosed ==
  /\ ~watch.panicked
  /\ watch.receiver = "waiting"
  /\ watch.chClosed
  /\ watch' = [watch EXCEPT !.receiver = "stopped"]
  /\ UNCHANGED <<storeVars, tui>>

\* cleanup, first statement: close(done).  The callbacks blocked in their
\* select take the case <-done and end.
CleanupCloseDone ==
  /\ ~watch.panicked
  /\ watch.cleanup = "none"
  /\ watch' = [watch EXCEPT !.cleanup = "doneClosed", !.done = TRUE,
                            !.parked = 0]
  /\ UNCHANGED <<storeVars, tui>>

\* cleanup, second statement: watcher.Close(), which closes watcher.Events
\* and watcher.Errors; cleanup returns.
CleanupCloseWatcher ==
  /\ ~watch.panicked
  /\ watch.cleanup = "doneClosed"
  /\ watch' = [watch EXCEPT !.cleanup = "returned", !.eventsClosed = TRUE,
                            !.events = 0]
  /\ UNCHANGED <<storeVars, tui>>

\* ---------------------------------------------------- tui: the list view
\* The terminal interface before its first message.
\*   tickets  the tickets of the list view, in the order of the last load
\*   cursor   the selected row, counted from 0
\*   offset   the first row drawn, counted from 0
\*   height   the height given to the list view
\*   running  the program runs: New has started the watcher
\*   cmds     the commands that run, each in a goroutine of its own
\*   synced   the FileChangedMsg handled so far
\*   overlap  history: a Store call has started while another one was
\*            between its write of the log and its checkpoint
\*   crashed  a command or View has panicked
TuiStart ==
  [tickets |-> <<>>, cursor |-> 0, offset |-> 0, height |-> 0,
   running |-> FALSE, cmds |-> {}, synced |-> 0, overlap |-> FALSE,
   crashed |-> FALSE]

\* What the actions of the list view leave alone.
watchVars == <<storeVars, watch>>

\* visibleRows: the height without the header row, at least 1.
visibleRows(m) == IF m.height - 2 < 1 THEN 1 ELSE m.height - 2

\* ensureVisible: the offset follows the cursor when the cursor is above or
\* below the rows drawn.
ensureVisible(m) ==
  LET up == IF m.cursor < m.offset THEN [m EXCEPT !.offset = m.cursor] ELSE m
  IN IF up.cursor >= up.offset + visibleRows(up)
     THEN [up EXCEPT !.offset = up.cursor - visibleRows(up) + 1]
     ELSE up

\* ListModel.Update, TicketsLoadedMsg without an error: the list is
\* replaced and the cursor is brought back into it; the offset is kept.
ticketsLoaded(m, ts) ==
  LET c1 == IF m.cursor >= Len(ts) THEN Len(ts) - 1 ELSE m.cursor
      c2 == IF c1 < 0 THEN 0 ELSE c1
  IN [m EXCEPT !.tickets = ts, !.cursor = c2]

\* The lists a load may return: the first n tickets of the project.
LoadedLists ==
  {[i \in 1..n |-> [id |-> i, status |-> StatusOpen, priority |-> 1,
                    created |-> i]] : n \in 0..MaxShown}

\* The heights a window gives the list view: one to three rows are drawn.
Heights == 3..5

ListLoaded(ts) ==
  /\ ~tui.crashed
  /\ tui' = ticketsLoaded(tui, ts)
  /\ UNCHANGED watchVars

\* Model.Update, WindowSizeMsg: ListModel.SetSize.
SetSize(h) ==
  /\ ~tui.crashed
  /\ tui' = [tui EXCEPT !.height = h]
  /\ UNCHANGED watchVars

\* ListModel.Update, the keys that move the cursor.
KeyUp ==
  /\ ~tui.crashed
  /\ tui' = IF tui.cursor > 0
            THEN ensureVisible([tui EXCEPT !.cursor = @ - 1]) ELSE tui
  /\ UNCHANGED watchVars

KeyDown ==
  /\ ~tui.crashed
  /\ tui' = IF tui.cursor < Len(tui.tickets) - 1
            THEN ensureVisible([tui EXCEPT !.cursor = @ + 1]) ELSE tui
  /\ UNCHANGED watchVars

\* The top key; the filter keys move the cursor the same way before their
\* load is started.
KeyTop ==
  /\ ~tui.crashed
  /\ tui' = [tui EXCEPT !.cursor = 0, !.offset = 0]
  /\ UNCHANGED watchVars

KeyBottom ==
  /\ ~tui.crashed
  /\ tui' = ensureVisible([tui EXCEPT !.cursor = Len(tui.tickets) - 1])
  /\ UNCHANGED watchVars

\* ListModel.View: the rows from offset to offset + visibleRows, or to the
\* end of the list, are read from the list.  An index below 0 panics.
ViewPanics(m) ==
  LET start == m.offset
      stop == IF start + visibleRows(m) > Len(m.tickets)
              THEN Len(m.tickets) ELSE start + visibleRows(m)
  IN /\ Len(m.tickets) # 0
     /\ \E i \in start..(stop - 1) : i < 0 \/ i >= Len(m.tickets)

\* The program draws the view after a message.
View ==
  /\ ~tui.crashed
  /\ ViewPanics(tui)
  /\ tui' = [tui EXCEPT !.crashed = TRUE]
  /\ UNCHANGED watchVars

\* ------------------------------------------- tui: the program and the Store
\* The tickets of the project while the program runs: ticket i was made at
\* time i.
TuiTicket(i) ==
  [id |-> i, status |-> StatusOpen, type |-> TypeBug, priority |-> 1,
   created |-> i]

\* What another process may leave in the log: no ticket, the first ticket,
\* or the first tickets.
TuiContents ==
  {[tickets |-> [i \in 1..n |-> TuiTicket(i)], comments |-> <<>>,
    dependencies |-> <<>>] : n \in 0..MaxTicketID}

\* The commands: loadTickets and closeTicket, each with its position.
LoadCmd == [kind |-> "load", pc |-> "start"]
CloseCmd(id) == [kind |-> "close", pc |-> "start", id |-> id]

\* A Store call is between its write of the log and its checkpoint.
MidMutation == \E c \in tui.cmds : c.pc = "written"

\* The record of the program after a Store call has started.
StoreCall(m) == [m EXCEPT !.overlap = @ \/ MidMutation]

\* What the steps of the program leave alone in the Store.
callerVars == <<store, rewrites, writer, procs, codec, cmd, pending, last>>

\* The armed timer is not due yet: the program waits for it.
TimerPending ==
  watch.timer.state = "armed" /\ watch.now < watch.timer.deadline

\* Run: New starts the watcher on the log of the open Store, and Init
\* starts the first load and the first wait on the watcher's channel.
TuiRun ==
  /\ store = "open"
  /\ ~tui.running
  /\ tui' = [tui EXCEPT !.running = TRUE, !.cmds = {LoadCmd}]
  /\ watch' = waitForFileChange
  /\ UNCHANGED <<logVars, cacheVars, metadata, callerVars>>

\* Another process rewrites the log while the program watches it.
WatchedRewrite(content) ==
  /\ tui.running
  /\ ~tui.crashed
  /\ Len(watch.writes) < MaxWrites
  /\ content # jsonl
  /\ WriteFile(content)
  /\ watch' = fileWritten
  /\ pending' = [pending EXCEPT !.rewritten = TRUE]
  /\ last' = [op |-> "WatchedRewrite", arg |-> NoArg, res |-> OK]
  /\ UNCHANGED <<cacheVars, metadata, store, rewrites, writer, procs, codec,
                 cmd, tui>>

\* Store.SyncFromJSONL: syncFromJSONL on the open Store.
SyncFromJSONL == syncFromJSONL("none")

\* Model.Update, FileChangedMsg: SyncFromJSONL on the event loop, then a
\* load of the list and a new wait on the watcher's channel.
HandleFileChanged ==
  /\ tui.running
  /\ ~tui.crashed
  /\ Len(watch.received) > tui.synced
  /\ dbTickets' = SyncFromJSONL.tickets
  /\ dbComments' = SyncFromJSONL.comments
  /\ dbDependencies' = SyncFromJSONL.dependencies
  /\ metadata' = SyncFromJSONL.metadata
  /\ tui' = [StoreCall(tui) EXCEPT !.synced = @ + 1,
                                   !.cmds = @ \cup {LoadCmd}]
  /\ watch' = waitForFileChange
  /\ UNCHANGED <<logVars, callerVars>>

\* DB.ListTickets with no filter: every row, ORDER BY priority, created.
ListTickets(scan) ==
  LET rows == SortByOrder(scan)
  IN [i \in 1..Len(rows) |-> scanTicket(rows[i])]

\* loadTickets, in its goroutine: store.List.
LoadQuery ==
  /\ ~tui.crashed
  /\ LoadCmd \in tui.cmds
  /\ \E scan \in TableScans :
       tui' = [StoreCall(tui) EXCEPT
                 !.cmds = (@ \ {LoadCmd}) \cup
                          {[kind |-> "load", pc |-> "loaded",
                            tickets |-> ListTickets(scan)]}]
  /\ UNCHANGED <<logVars, cacheVars, metadata, callerVars, watch>>

\* ListModel.Update, TicketsLoadedMsg of a load that has returned.
LoadDeliver(c) ==
  /\ ~tui.crashed
  /\ c \in tui.cmds
  /\ c.pc = "loaded"
  /\ tui' = ticketsLoaded([tui EXCEPT !.cmds = @ \ {c}], c.tickets)
  /\ UNCHANGED <<logVars, cacheVars, metadata, callerVars, watch>>

\* ListModel.Update, the close key: a closeTicket command for the selected
\* ticket when it is open.
KeyClose ==
  /\ tui.running
  /\ ~tui.crashed
  /\ Cardinality({c \in tui.cmds : c.kind = "close"}) < MaxCloseCmds
  /\ Len(tui.tickets) > 0
  /\ tui.cursor < Len(tui.tickets)
  /\ IF tui.cursor < 0
     THEN tui' = [tui EXCEPT !.crashed = TRUE]
     ELSE /\ tui.tickets[tui.cursor + 1].status = StatusOpen
          /\ tui' = [tui EXCEPT
                       !.cmds = @ \cup {CloseCmd(tui.tickets[tui.cursor + 1].id)}]
  /\ UNCHANGED <<logVars, cacheVars, metadata, callerVars, watch>>

\* closeTicket, in its goroutine: store.Get, then t.Status = StatusClosed.
\* Get returns nil with no error when the cache has no row, and the
\* assignment to a field of nil panics.
CloseGet(c) ==
  /\ ~tui.crashed
  /\ c \in tui.cmds
  /\ c.kind = "close" /\ c.pc = "start"
  /\ tui' = IF GetTicket(c.id) = NoTicket
            THEN [StoreCall(tui) EXCEPT !.crashed = TRUE]
            ELSE [StoreCall(tui) EXCEPT
                    !.cmds = (@ \ {c}) \cup
                             {[kind |-> "close", pc |-> "got", id |-> c.id,
                               t |-> [GetTicket(c.id) EXCEPT
                                        !.status = StatusClosed]]}]
  /\ UNCHANGED <<logVars, cacheVars, metadata, callerVars, watch>>

\* closeTicket: store.Update up to the end of WriteAllJSONL.  A ticket that
\* the log does not hold gives an ErrorMsg and nothing is written.
CloseWrite(c) ==
  /\ ~tui.crashed
  /\ c \in tui.cmds
  /\ c.kind = "close" /\ c.pc = "got"
  /\ IF \E k \in 1..Len(ReadAllJSONL.tickets) :
          ReadAllJSONL.tickets[k].id = c.id
     THEN /\ Len(watch.writes) < MaxWrites
          /\ WriteFile(updatedJSONL(c.t))
          /\ watch' = fileWritten
          /\ tui' = [StoreCall(tui) EXCEPT
                       !.cmds = (@ \ {c}) \cup {[c EXCEPT !.pc = "written"]}]
     ELSE /\ tui' = [StoreCall(tui) EXCEPT !.cmds = @ \ {c}]
          /\ UNCHANGED <<logVars, watch>>
  /\ UNCHANGED <<cacheVars, metadata, callerVars>>

\* closeTicket: the rest of store.Update, db.UpdateTicket and
\* updateJSONLModTime, which stores the time the file has now.  On an
\* error of UpdateTicket the command returns an ErrorMsg.
CloseCache(c) ==
  /\ ~tui.crashed
  /\ c \in tui.cmds
  /\ c.kind = "close" /\ c.pc = "written"
  /\ LET r == UpdateTicket(dbTickets, c.t)
     IN IF r.ok
        THEN /\ dbTickets' = r.rows
             /\ metadata' = SetMetadata(GetJSONLModTime)
             /\ tui' = [tui EXCEPT
                          !.cmds = (@ \ {c}) \cup {[c EXCEPT !.pc = "closed"]}]
        ELSE /\ tui' = [tui EXCEPT !.cmds = @ \ {c}]
             /\ UNCHANGED <<dbTickets, metadata>>
  /\ UNCHANGED <<logVars, dbComments, dbDependencies, callerVars, watch>>

\* Model.Update, TicketClosedMsg: the list is loaded again.
HandleTicketClosed(c) ==
  /\ ~tui.crashed
  /\ c \in tui.cmds
  /\ c.kind = "close" /\ c.pc = "closed"
  /\ tui' = [tui EXCEPT !.cmds = (@ \ {c}) \cup {LoadCmd}]
  /\ UNCHANGED <<logVars, cacheVars, metadata, callerVars, watch>>

\* ------------------------------------------------------ the add command
\* No add command runs.
\*   pc     "idle", "opened" (the Store is open), "added" (the ticket is
\*          stored, links remain) or "returning" (the result is decided and
\*          the deferred Close has not run yet)
\*   start  what the log held when the command opened the Store
\*   t      the ID of the ticket the command has made
\*   links  the link flags not handled yet, in the order of the code
\*   err    the error the command returns
\*   at     the call that gave the error
CmdIdle ==
  [pc |-> "idle", start |-> EmptyFile, t |-> NoID, links |-> <<>>, err |-> OK,
   at |-> "none"]

\* The flags --blocks, --blocked-by and --created-from.
FlagBlocks == "blocks"
FlagBlockedBy == "blocked-by"
FlagCreatedFrom == "created-from"

\* The targets a flag may name: the ID of a ticket, or a string that is not
\* a ticket ID.
LinkTargets == TicketIDs \cup {NoID}

\* The flags of one call of the command: each flag is given or not, and the
\* code handles them in this order.
LinkFlags ==
  LET opt(f) == {<<>>} \cup {<<[flag |-> f, target |-> x]>> : x \in LinkTargets}
  IN {a \o b \o c : a \in opt(FlagBlocks), b \in opt(FlagBlockedBy),
                     c \in opt(FlagCreatedFrom)}

\* ticket.New: an open ticket with a generated ID.
NewTicket == {t \in Ticket : t.status = StatusOpen}

\* ValidateID, on the IDs of the model.
ValidateID(id) == IF id \in TicketIDs THEN OK ELSE ErrInvalidID

\* ticket.NewDependency, before the ID is generated: the error it returns.
NewDependencyError(fromTicketID, toTicketID) ==
  IF ValidateID(fromTicketID) # OK THEN ErrInvalidID
  ELSE IF ValidateID(toTicketID) # OK THEN ErrInvalidID
  ELSE IF fromTicketID = toTicketID THEN ErrSelfDependency
  ELSE OK

\* The ends and the type of the dependency a flag asks for.
LinkOf(link, id) ==
  IF link.flag = FlagBlocks
  THEN [from_ticket_id |-> link.target, to_ticket_id |-> id,
        type |-> DependencyBlockedBy]
  ELSE IF link.flag = FlagBlockedBy
  THEN [from_ticket_id |-> id, to_ticket_id |-> link.target,
        type |-> DependencyBlockedBy]
  ELSE [from_ticket_id |-> id, to_ticket_id |-> link.target,
        type |-> DependencyCreatedFrom]

\* The command returns: now, or after the links that remain.
AfterCall(c, res, at, links) ==
  IF res # OK THEN [c EXCEPT !.pc = "returning", !.err = res, !.at = at]
  ELSE IF links = <<>> THEN [c EXCEPT !.pc = "returning", !.links = <<>>]
  ELSE [c EXCEPT !.pc = "added", !.links = links]

\* Add: storage.Open; on an error the command returns it.
AddOpen(links) ==
  /\ cmd.pc = "idle"
  /\ Open
  /\ cmd' = IF last'.res = OK
            THEN [CmdIdle EXCEPT !.pc = "opened", !.start = jsonl,
                                 !.links = links]
            ELSE CmdIdle

\* Add: ticket.New and store.Add.
AddTicket(t) ==
  /\ cmd.pc = "opened"
  /\ Add(t)
  /\ cmd' = AfterCall([cmd EXCEPT !.t = t.id], last'.res, "add", cmd.links)

\* Add: the next link flag, ticket.NewDependency and store.AddDependency.
AddLink ==
  /\ cmd.pc = "added"
  /\ LET l == LinkOf(Head(cmd.links), cmd.t)
         e == NewDependencyError(l.from_ticket_id, l.to_ticket_id)
     IN IF e # OK
        THEN /\ cmd' = AfterCall(cmd, e, "link", Tail(cmd.links))
             /\ UNCHANGED <<logVars, cacheVars, metadata, store, rewrites,
                            writer, codec, watch, tui, procs, pending, last>>
        ELSE \E id \in DependencyIDs :
               /\ AddDependency([id |-> id] @@ l)
               /\ cmd' = AfterCall(cmd, last'.res, "link", Tail(cmd.links))

\* Add: the deferred store.Close.
AddReturn ==
  /\ cmd.pc = "returning"
  /\ Close
  /\ cmd' = CmdIdle

\* ------------------------------------------------------ specifications
Init ==
  /\ jsonl = [tickets |-> <<>>, comments |-> <<>>, dependencies |-> <<>>]
  /\ modTime = 0
  /\ dbTickets = {}
  /\ dbComments = {}
  /\ dbDependencies = {}
  /\ metadata = {}
  /\ store = "closed"
  /\ rewrites = 0
  /\ writer = [pc |-> "idle", old |-> EmptyFile, new |-> EmptyFile,
               todo |-> EmptyFile]
  /\ procs = [p \in Procs |-> ProcIdle({})]
  /\ codec = [lines |-> <<>>, input |-> EmptyFile, edited |-> FALSE,
              result |-> NoRead]
  /\ watch = WatchStart
  /\ tui = TuiStart
  /\ cmd = CmdIdle
  /\ pending = [failedWrite |-> FALSE, rewritten |-> FALSE]
  /\ last = [op |-> "none", arg |-> NoArg, res |-> OK]

\* The calls of one process on its Store.
NextStore ==
  \/ Open /\ UNCHANGED cmd
  \/ Close /\ UNCHANGED cmd
  \/ \E t \in Ticket : Add(t) /\ UNCHANGED cmd
  \/ \E t \in Ticket : Update(t)
  \/ \E c \in Comment : AddComment(c)
  \/ \E d \in StoreDependency : AddDependency(d) /\ UNCHANGED cmd

SpecStore == Init /\ [][NextStore]_vars

\* The calls of one process on its Store, and other processes writing the
\* log file in between.
Next ==
  \/ Open /\ UNCHANGED cmd
  \/ Close /\ UNCHANGED cmd
  \/ \E t \in PulledTicket : Add(t) /\ UNCHANGED cmd
  \/ \E t \in PulledTicket : Update(t)
  \/ \E c \in Comment : AddComment(c)
  \/ \E d \in PulledDependency : AddDependency(d) /\ UNCHANGED cmd
  \/ \E content \in ExternalContents : ExternalRewrite(content)

Spec == Init /\ [][Next]_vars

\* The dependency graph alone, over one more ticket.
NextGraph ==
  \/ Open /\ UNCHANGED cmd
  \/ Close /\ UNCHANGED cmd
  \/ \E d \in GraphDependency : AddDependency(d) /\ UNCHANGED cmd

SpecGraph == Init /\ [][NextGraph]_vars

\* The elements of a sequence.
Range(seq) == {seq[i] : i \in 1..Len(seq)}

\* ------------------------------------------------- the cache on its own
\* The statements of the cache called directly on an open database, as the
\* tests of sqlite.go do: no log, no Store.
Priorities == 1..MaxPriority
Timestamps == 1..MaxCreated
DBTicket == [id : GraphTicketIDs, status : Statuses, type : Types,
             priority : Priorities, created : Timestamps]

\* A statement that fails leaves the table as it was.
DBInsertTicket(t) ==
  /\ dbTickets' = InsertTicket(dbTickets, t).rows
  /\ UNCHANGED <<logVars, dbComments, dbDependencies, metadata, store,
                 rewrites, writer, codec, watch, tui, cmd, procs, pending, last>>

DBUpdateTicket(t) ==
  /\ dbTickets' = UpdateTicket(dbTickets, t).rows
  /\ UNCHANGED <<logVars, dbComments, dbDependencies, metadata, store,
                 rewrites, writer, codec, watch, tui, cmd, procs, pending, last>>

DBInsertDependency(d) ==
  /\ dbDependencies' = InsertDependency(dbDependencies, d).rows
  /\ UNCHANGED <<logVars, dbTickets, dbComments, metadata, store,
                 rewrites, writer, codec, watch, tui, cmd, procs, pending, last>>

NextDB ==
  \/ \E t \in DBTicket : DBInsertTicket(t) \/ DBUpdateTicket(t)
  \/ \E d \in GraphDependency : DBInsertDependency(d)

SpecDB == Init /\ [][NextDB]_vars

\* The calls of WriteAllJSONL that the Store makes, one after the other and
\* write by write: an append of a ticket, a comment or a dependency to what
\* the file holds, or the replacement of a ticket.
NextWrite ==
  \/ \E t \in Ticket :
        \/ WriteAllBegin(Append(ReadAllJSONL.tickets, t), ReadAllJSONL.comments,
                         ReadAllJSONL.dependencies)
        \/ /\ \E i \in 1..Len(ReadAllJSONL.tickets) :
                 ReadAllJSONL.tickets[i].id = t.id
           /\ WriteAllBegin(replaceTicket(ReadAllJSONL.tickets, t),
                            ReadAllJSONL.comments, ReadAllJSONL.dependencies)
  \/ \E c \in Comment :
        WriteAllBegin(ReadAllJSONL.tickets, Append(ReadAllJSONL.comments, c),
                      ReadAllJSONL.dependencies)
  \/ \E d \in StoreDependency :
        WriteAllBegin(ReadAllJSONL.tickets, ReadAllJSONL.comments,
                      Append(ReadAllJSONL.dependencies, d))
  \/ WriteAllLine
  \/ WriteAllReturn
  \/ WriteAllStop

SpecWrite == Init /\ [][NextWrite]_vars

\* Two processes that add and update tickets side by side.
NextProcs ==
  \E p \in Procs :
    \/ \E t \in AddedTicket : ProcAddRead(p, t)
    \/ \E t \in ClosedTicket : ProcUpdateRead(p, t)
    \/ ProcWrite(p)

SpecProcs == Init /\ [][NextProcs]_vars

\* ------------------------------------------------------------ properties
\* The cache tables hold exactly the records of the log: every line of the
\* file has its row and every row its line, one row per line.
CacheMatchesLog ==
  /\ dbTickets = {ticketRow(t) : t \in Range(jsonl.tickets)}
  /\ Cardinality(dbTickets) = Len(jsonl.tickets)
  /\ dbComments = Range(jsonl.comments)
  /\ Cardinality(dbComments) = Len(jsonl.comments)
  /\ dbDependencies = Range(jsonl.dependencies)
  /\ Cardinality(dbDependencies) = Len(jsonl.dependencies)

BlockedByEdges(deps) ==
  {<<d.from_ticket_id, d.to_ticket_id>> : d \in {e \in deps : e.type = DependencyBlockedBy}}

\* The tickets reached from the set S by following edges, S included.
RECURSIVE Closure(_, _)
Closure(edges, S) ==
  LET N == S \cup {e[2] : e \in {f \in edges : f[1] \in S}}
  IN IF N = S THEN S ELSE Closure(edges, N)

\* The tickets reached from a by one or more edges.
ReachableFrom(edges, a) ==
  Closure(edges, {e[2] : e \in {f \in edges : f[1] = a}})

Acyclic(edges) == \A a \in GraphTicketIDs : a \notin ReachableFrom(edges, a)

Mutations == {"Add", "Update", "AddComment", "AddDependency"}

\* C1: in every state reached by calls on the Store, the blocked_by edges
\* are acyclic, in the log and in the cache: no ticket reaches itself by
\* following one or more blocked_by edges.
C1_BlockedByAcyclic ==
  /\ Acyclic(BlockedByEdges(Range(jsonl.dependencies)))
  /\ Acyclic(BlockedByEdges(dbDependencies))

\* C2: after a mutation that wrote the log and then failed to write the
\* cache, the next Open leaves the cache holding exactly the records of the
\* log.
C2_OpenAfterFailedCacheWrite ==
  (last.op = "Open" /\ last.res = OK /\ last.arg.failedWrite) => CacheMatchesLog

\* C3: when another process has rewritten the log and the Store is then
\* opened again, the cache, which answers every query, holds exactly the
\* records of the log and nothing of its earlier content.
C3_ReopenAfterExternalRewrite ==
  (last.op = "Open" /\ last.res = OK /\ last.arg.rewritten) => CacheMatchesLog

\* C4: after every successful Open the cache holds exactly the records of
\* the log, whatever it held before.
C4_OpenRecoversCache ==
  (last.op = "Open" /\ last.res = OK) => CacheMatchesLog

\* C5: in every mutation the log is written first, the cache second and the
\* checkpoint last: a call that changes the cache tables has written its
\* record to the log, and a call that changes the checkpoint has its record
\* in the log and in the cache and sets the checkpoint to the file's new
\* modification time.
C5_LogThenCacheThenCheckpoint ==
  [][last'.op \in Mutations =>
       LET m == last'.arg
           inLog == CASE last'.op \in {"Add", "Update"} -> m \in Range(jsonl'.tickets)
                      [] last'.op = "AddComment" -> m \in Range(jsonl'.comments)
                      [] last'.op = "AddDependency" -> m \in Range(jsonl'.dependencies)
           inCache == CASE last'.op \in {"Add", "Update"} -> ticketRow(m) \in dbTickets'
                        [] last'.op = "AddComment" -> m \in dbComments'
                        [] last'.op = "AddDependency" -> m \in dbDependencies'
       IN /\ cacheVars' # cacheVars => (modTime' # modTime /\ inLog)
          /\ metadata' # metadata =>
               (modTime' # modTime /\ inLog /\ inCache /\ metadata' = {modTime'})
    ]_vars

C5_Witness ==
  /\ last.op = "Update"
  /\ last.res = OK
  /\ last.arg.status = StatusClosed
  /\ ticketRow(last.arg) \in dbTickets
  /\ last.arg \in Range(jsonl.tickets)
  /\ metadata = {modTime}

\* C6: a successful Open that finds the file's modification time different
\* from the stored checkpoint rebuilds the cache from the log and stores the
\* file's time as the checkpoint; one that finds them equal leaves the cache
\* and the checkpoint as they were.  (With no checkpoint row and no file
\* there is nothing to compare; that case is not covered here.)
C6_OpenRebuildsIffCheckpointDiffers ==
  [][(last'.op = "Open" /\ last'.res = OK /\ (metadata # {} \/ modTime # 0)) =>
       IF metadata # {modTime}
       THEN CacheMatchesLog' /\ metadata' = {modTime}
       ELSE UNCHANGED <<cacheVars, metadata>>
    ]_vars

C6_Witness ==
  /\ last.op = "Open"
  /\ last.res = OK
  /\ last.arg.stale
  /\ last.arg.rewritten
  /\ jsonl.tickets # <<>>
  /\ jsonl.dependencies # <<>>
  /\ CacheMatchesLog

\* C7: an AddDependency that is rejected as a duplicate or as closing a
\* cycle leaves the log file, its modification time, every cache table and
\* the checkpoint as they were.
C7_RejectedDependencyWritesNothing ==
  [][(last'.op = "AddDependency"
      /\ last'.res \in {ErrDuplicateDependency, ErrCircularDependency}) =>
       UNCHANGED <<jsonl, modTime, dbTickets, dbComments, dbDependencies, metadata>>
    ]_vars

C7_Witness ==
  /\ last.op = "AddDependency"
  /\ last.res = ErrCircularDependency
  /\ last.arg.from_ticket_id # last.arg.to_ticket_id
  /\ dbDependencies # {}
  /\ jsonl.dependencies # <<>>

\* C8: an AddDependency of a blocked_by edge from -> to that is not a
\* duplicate is rejected with the cycle error exactly when from is to or is
\* reached from to along the blocked_by edges of the cache; otherwise the
\* edge is accepted and written to the log.
C8_CycleErrorIffReachable ==
  [][(last'.op = "AddDependency"
      /\ last'.arg.type = DependencyBlockedBy
      /\ ~\E r \in dbDependencies :
            /\ r.from_ticket_id = last'.arg.from_ticket_id
            /\ r.to_ticket_id = last'.arg.to_ticket_id
            /\ r.type = DependencyBlockedBy) =>
       LET d == last'.arg
           reachable ==
             d.from_ticket_id \in
               {d.to_ticket_id} \cup
                 ReachableFrom(BlockedByEdges(dbDependencies), d.to_ticket_id)
       IN /\ (last'.res = ErrCircularDependency) <=> reachable
          /\ ~reachable => d \in Range(jsonl'.dependencies)
    ]_vars

C8_Witness ==
  /\ last.op = "AddDependency"
  /\ last.res = ErrCircularDependency
  /\ last.arg.from_ticket_id = 3
  /\ last.arg.to_ticket_id = 1
  /\ BlockedByEdges(dbDependencies) = {<<1, 2>>, <<2, 3>>}

\* C9: in every state the log and the cache each hold at most one
\* dependency per (from, to, type).
SameEdge(a, b) ==
  /\ a.from_ticket_id = b.from_ticket_id
  /\ a.to_ticket_id = b.to_ticket_id
  /\ a.type = b.type

C9_NoDuplicateEdge ==
  /\ \A i, j \in 1..Len(jsonl.dependencies) :
       i # j => ~SameEdge(jsonl.dependencies[i], jsonl.dependencies[j])
  /\ \A a, b \in dbDependencies : a # b => ~SameEdge(a, b)

\* C10: no dependency of a ticket on itself is ever persisted, of either
\* type, in the log or in the cache.
C10_NoSelfEdge ==
  /\ \A d \in Range(jsonl.dependencies) : d.from_ticket_id # d.to_ticket_id
  /\ \A d \in dbDependencies : d.from_ticket_id # d.to_ticket_id

\* C11: every violation is reported with the error of its own kind: an
\* AddDependency of an edge that is already in the cache returns the
\* duplicate error, one of a ticket on itself the self-dependency error, one
\* of a blocked_by edge between two tickets that closes a cycle the cycle
\* error, and an Update of a ticket that is not in the log a not-found error.
C11_DistinctErrorKinds ==
  /\ (last.op = "AddDependency" /\ last.arg.from_ticket_id = last.arg.to_ticket_id)
       => last.res \in {ErrSelfDependency, ErrDuplicateDependency}
  /\ (last.op = "AddDependency" /\ last.res = ErrCircularDependency)
       => last.arg.from_ticket_id # last.arg.to_ticket_id
  /\ (last.op = "Update" /\ last.arg.id \notin {t.id : t \in Range(jsonl.tickets)})
       => last.res = ErrNotFound

\* C12: ticket IDs are unique: no two ticket lines of the log and no two
\* rows of the tickets table have the same ID.
C12_TicketIDsUnique ==
  /\ \A i, j \in 1..Len(jsonl.tickets) :
       i # j => jsonl.tickets[i].id # jsonl.tickets[j].id
  /\ \A a, b \in dbTickets : a # b => a.id # b.id

\* The status of the ticket with the ID in the tickets table, "" when the
\* table has no such ticket.
StatusOf(id) ==
  IF \E r \in dbTickets : r.id = id
  THEN (CHOOSE r \in dbTickets : r.id = id).status
  ELSE ""

\* The tickets the ticket is directly blocked by.
DirectBlockers(id) ==
  {d.to_ticket_id : d \in {r \in dbDependencies :
      r.from_ticket_id = id /\ r.type = DependencyBlockedBy}}

\* C13: the ready list holds, once each, exactly the tickets that are open
\* and have no open ticket among their direct blocked-by targets, whatever
\* those targets are blocked by themselves.
C13_ReadyIsOpenWithNoOpenDirectBlocker ==
  \A scan \in TableScans :
    LET ready == ListReadyTickets(scan)
    IN /\ {t.id : t \in Range(ready)} =
            {id \in GraphTicketIDs :
               /\ StatusOf(id) = StatusOpen
               /\ \A b \in DirectBlockers(id) : StatusOf(b) # StatusOpen}
       /\ \A i, j \in 1..Len(ready) : i # j => ready[i].id # ready[j].id

\* C13 witness: x is blocked by the closed y, y is blocked by the open z,
\* and x is in the ready list.
C13_Witness ==
  \E x, y, z \in GraphTicketIDs :
    /\ StatusOf(x) = StatusOpen /\ StatusOf(y) = StatusClosed
    /\ StatusOf(z) = StatusOpen
    /\ y \in DirectBlockers(x) /\ z \in DirectBlockers(y)
    /\ \E scan \in TableScans : \E t \in Range(ListReadyTickets(scan)) : t.id = x

\* The IDs of the tickets of the ready list.
ReadyIDs ==
  UNION {{t.id : t \in Range(ListReadyTickets(scan))} : scan \in TableScans}

\* The open tickets among the tickets that the log records as blocking the
\* ticket.
OpenBlockersInLog(id) ==
  {y \in Range(jsonl.tickets) :
     /\ y.status = StatusOpen
     /\ \E d \in Range(jsonl.dependencies) :
          /\ d.type = DependencyBlockedBy
          /\ d.from_ticket_id = id
          /\ d.to_ticket_id = y.id}

\* C14: in a Store that has been opened, an open ticket that is blocked by
\* an open ticket is not in the ready list, and an open ticket with no open
\* blocker (none at all, or every one closed by an Update) is in it.
C14_ReadyFollowsOpenAndBlockedBy ==
  (store = "open" /\ last.op = "Open" /\ last.res = OK) =>
    \A x \in Range(jsonl.tickets) :
      x.status = StatusOpen =>
        (x.id \in ReadyIDs <=> OpenBlockersInLog(x.id) = {})

SelectedIDs == {r.id : r \in {t \in dbTickets : readyRow(t)}}

\* The created_from row that a step adds to the dependencies table, if any.
AddsCreatedFrom(d) ==
  /\ d.type = DependencyCreatedFrom
  /\ d \notin dbDependencies
  /\ dbDependencies' = dbDependencies \cup {d}

\* C16: a step that adds a created_from edge changes neither the ready list
\* nor which tickets are blocked nor the answer of the cycle check for any
\* pair of tickets, and AddDependency never answers a created_from edge
\* with the cycle error.
C16_CreatedFromIsInformational ==
  [][(\E d \in GraphDependency : AddsCreatedFrom(d)) =>
       /\ SelectedIDs' = SelectedIDs
       /\ \A id \in GraphTicketIDs : IsBlocked(id)' = IsBlocked(id)
       /\ \A a, b \in GraphTicketIDs :
            checkCircularDependency(a, b)' = checkCircularDependency(a, b)
       /\ \A e \in GraphDependency :
            e.type = DependencyCreatedFrom =>
              /\ validateDependency(e) # ErrCircularDependency
              /\ validateDependency(e)' # ErrCircularDependency]_vars

\* C16 witness: x was created from the open y and is blocked by nothing, x
\* is ready and not blocked, and the edge "y blocked by x" passes the cycle
\* check.
C16_Witness ==
  \E d \in dbDependencies :
    /\ d.type = DependencyCreatedFrom
    /\ d.from_ticket_id # d.to_ticket_id
    /\ StatusOf(d.from_ticket_id) = StatusOpen
    /\ StatusOf(d.to_ticket_id) = StatusOpen
    /\ d.from_ticket_id \in ReadyIDs
    /\ ~IsBlocked(d.from_ticket_id)
    /\ checkCircularDependency(d.to_ticket_id, d.from_ticket_id) = OK

\* C17: after an Open that has rebuilt the cache, every ticket of the log
\* read back from the cache with GetTicket equals its log record in every
\* field, and the comments and dependencies of the cache are those of the
\* log.
C17_RebuildLosesNothing ==
  (last.op = "Open" /\ last.res = OK /\ last.arg.stale) =>
    /\ \A t \in Range(jsonl.tickets) : GetTicket(t.id) = t
    /\ dbComments = Range(jsonl.comments)
    /\ dbDependencies = Range(jsonl.dependencies)

\* C18: an Open that follows an Open whose rebuild was committed (and whose
\* checkpoint write then failed) rebuilds from the same log: the rebuild is
\* accepted again, and the cache tables, and with them the results of
\* GetTicket and of the ready list, are the same after it as before.
C18_RebuildTwiceSameResults ==
  [][(last.op = "Open" /\ last.res = ErrMetadata /\ last'.op = "Open") =>
       /\ RebuildFromAll(ReadAllJSONL.tickets, ReadAllJSONL.comments,
                         ReadAllJSONL.dependencies).ok
       /\ UNCHANGED cacheVars
       /\ \A id \in TicketIDs : GetTicket(id)' = GetTicket(id)
       /\ SelectedIDs' = SelectedIDs
    ]_vars

\* C18 witness: the second of two rebuilds from a log with a ticket, a
\* comment and a dependency has returned nil.
C18_Witness ==
  /\ last.op = "Open"
  /\ last.res = OK
  /\ last.arg.again
  /\ last.arg.stale
  /\ jsonl.tickets # <<>>
  /\ jsonl.comments # <<>>
  /\ jsonl.dependencies # <<>>
  /\ CacheMatchesLog

\* C19: an Open whose rebuild fails leaves every cache table and the
\* checkpoint as they were.
C19_FailedRebuildLeavesCache ==
  [][(last'.op = "Open" /\ last'.res = ErrRebuild) =>
       UNCHANGED <<cacheVars, metadata>>]_vars

\* C19 witness: the rebuild has failed on a record of the log that the cache
\* rejects, and the cache holds what it held before, which is not what the
\* log holds.
C19_Witness ==
  /\ last.op = "Open"
  /\ last.res = ErrRebuild
  /\ ~RebuildFromAll(ReadAllJSONL.tickets, ReadAllJSONL.comments,
                     ReadAllJSONL.dependencies).ok
  /\ dbTickets # {}
  /\ dbComments # {}
  /\ metadata # {}

\* C20: at every instant the log file holds the complete content that the
\* last call of WriteAllJSONL found or the complete content that it was
\* given to write.
C20_WriteAllIsAtomic ==
  jsonl \in {writer.old, writer.new}

\* C21: the rewrite that ends a mutation leaves in the log what its process
\* read and the record of the mutation, and nothing else: a record that the
\* other process has written since the read is no longer in the log.
C21_LastRewriteWins ==
  [][\A p \in Procs :
       (procs[p].pc = "read" /\ procs'[p].pc = "idle") =>
         /\ procs[p].op = "Add" =>
              /\ Range(jsonl'.tickets) =
                   Range(procs[p].seen.tickets) \cup {procs[p].arg}
              /\ Len(jsonl'.tickets) = Len(procs[p].seen.tickets) + 1
         /\ procs[p].op = "Update" =>
              /\ {t.id : t \in Range(jsonl'.tickets)} =
                   {t.id : t \in Range(procs[p].seen.tickets)}
              /\ procs[p].arg \in Range(jsonl'.tickets)
              /\ Len(jsonl'.tickets) = Len(procs[p].seen.tickets)
    ]_vars

\* C21 witness: no process is in a mutation, the Add of a ticket has
\* returned nil in one of them, and the log holds no ticket with its ID.
C21_Witness ==
  /\ \A p \in Procs : procs[p].pc = "idle"
  /\ \E p \in Procs : \E id \in procs[p].acked :
       id \notin {t.id : t \in Range(jsonl.tickets)}

\* How many lines of the list are the record.
Count(seq, x) == Cardinality({i \in 1..Len(seq) : seq[i] = x})

OtherTickets(ts, id) == SelectSeq(ts, LAMBDA t : t.id # id)

NextWatch ==
  \/ Tick
  \/ WatchWrite
  \/ LoopEvent
  \/ LoopDone
  \/ LoopEventsClosed
  \/ TimerFire
  \/ CallbackSelect
  \/ ReceiverWait
  \/ ReceiverClosed
  \/ CleanupCloseDone
  \/ CleanupCloseWatcher

SpecWatch == Init /\ [][NextWatch]_vars

\* The program from its start to the moment before cleanup: the log as
\* another process left it, the Store opened, then the watcher, the event
\* loop, the commands, the close key and rewrites by other processes.
NextTui ==
  \/ \E content \in TuiContents : ~tui.running /\ ExternalRewrite(content)
  \/ Open /\ UNCHANGED cmd
  \/ TuiRun
  \/ \E content \in TuiContents : WatchedRewrite(content)
  \/ TimerPending /\ Tick
  \/ LoopEvent
  \/ TimerFire
  \/ CallbackSelect
  \/ HandleFileChanged
  \/ LoadQuery
  \/ \E c \in tui.cmds : LoadDeliver(c)
  \/ KeyClose
  \/ \E c \in tui.cmds : CloseGet(c)
  \/ \E c \in tui.cmds : CloseWrite(c)
  \/ \E c \in tui.cmds : CloseCache(c)
  \/ \E c \in tui.cmds : HandleTicketClosed(c)

SpecTui == Init /\ [][NextTui]_vars

\* The program with its scheduling: the clock runs to the deadline of an
\* armed timer, the goroutine of the watcher, the callbacks of the timers
\* and the goroutines of the commands take their steps, and the event loop
\* handles the messages sent to it.  Nothing is assumed about the keys and
\* about other processes.
FairTui ==
  /\ WF_vars(TimerPending /\ Tick)
  /\ WF_vars(LoopEvent)
  /\ WF_vars(TimerFire)
  /\ WF_vars(CallbackSelect)
  /\ WF_vars(HandleFileChanged)
  /\ WF_vars(LoadQuery)
  /\ WF_vars(\E c \in tui.cmds : LoadDeliver(c))
  /\ WF_vars(\E c \in tui.cmds : CloseGet(c))
  /\ WF_vars(\E c \in tui.cmds : CloseWrite(c))
  /\ WF_vars(\E c \in tui.cmds : CloseCache(c))
  /\ WF_vars(\E c \in tui.cmds : HandleTicketClosed(c))

SpecTuiFair == SpecTui /\ FairTui

\* The add command, run again and again by one user.
NextAdd ==
  \/ \E links \in LinkFlags : AddOpen(links)
  \/ \E t \in NewTicket : AddTicket(t)
  \/ AddLink
  \/ AddReturn

SpecAdd == Init /\ [][NextAdd]_vars

\* The list view: keys, window sizes and loads of the ticket list.
NextList ==
  \/ \E ts \in LoadedLists : ListLoaded(ts)
  \/ \E h \in Heights : SetSize(h)
  \/ KeyUp
  \/ KeyDown
  \/ KeyTop
  \/ KeyBottom
  \/ View

SpecList == Init /\ [][NextList]_vars

\* The blocked_by graphs over the tickets: every edge has a row ID of its
\* own, and the rows are inserted into the cache one by one.  The table
\* takes an edge from a ticket to itself and edges that close a cycle.
SearchDependency ==
  {[id |-> (f - 1) * Cardinality(GraphTicketIDs) + t, from_ticket_id |-> f,
    to_ticket_id |-> t, type |-> DependencyBlockedBy] :
     f \in GraphTicketIDs, t \in GraphTicketIDs}

NextSearch == \E d \in SearchDependency : DBInsertDependency(d)

SpecSearch == Init /\ [][NextSearch]_vars

\* The calls of one process on the tickets of its Store, and the removal of
\* the log file.
NextRemove ==
  \/ Open /\ UNCHANGED cmd
  \/ Close /\ UNCHANGED cmd
  \/ \E t \in Ticket : Add(t) /\ UNCHANGED cmd
  \/ \E t \in Ticket : Update(t)
  \/ ExternalRemove

SpecRemove == Init /\ [][NextRemove]_vars

\* The file written, changed and read line by line, and opened by a Store.
NextCodec ==
  \/ \E ts \in UpTo2(CodecTicket), cs \in UpTo1(CodecComment),
        ds \in UpTo1(CodecDependency) : CodecWriteAll(ts, cs, ds)
  \/ \E i \in 1..MaxRecords, line \in EditedLine : CodecEdit(i, line)
  \/ CodecReadAll
  \/ CodecOpen
  \/ Close /\ UNCHANGED cmd

SpecCodec == Init /\ [][NextCodec]_vars

\* The place of the kind of a line in a full rewrite: tickets, comments,
\* dependencies.
KindRank(line) ==
  IF "from_ticket_id" \in DOMAIN line.json THEN 3
  ELSE IF "ticket_id" \in DOMAIN line.json THEN 2
  ELSE 1

\* C25: the lines of the log are those of a full sorted rewrite: every
\* ticket line before every comment line before every dependency line, and
\* the lines of one kind in ascending order of ID.
C25_LogIsSortedRewrite ==
  LET lines == FileLines(jsonl)
  IN \A i, j \in 1..Len(lines) :
       i < j => \/ KindRank(lines[i]) < KindRank(lines[j])
                \/ /\ KindRank(lines[i]) = KindRank(lines[j])
                   /\ lines[i].json.id <= lines[j].json.id

\* C25 witness: an Add has returned nil for a ticket whose ID is smaller
\* than that of a ticket added before it, and the log holds a comment too.
C25_Witness ==
  /\ last.op = "Add"
  /\ last.res = OK
  /\ \E t \in Range(jsonl.tickets) : last.arg.id < t.id
  /\ jsonl.comments # <<>>

\* The two lists hold the same records, each as many times.
SameRecords(a, b) ==
  /\ Len(a) = Len(b)
  /\ \A x \in Range(a) \cup Range(b) : Count(a, x) = Count(b, x)

\* C26: ReadAllJSONL of a file that WriteAllJSONL has written returns the
\* records that were written, each in the list of its kind and with the
\* values of its fields, in whatever order.
C26_ReadAllAfterWriteAll ==
  (codec.result # NoRead /\ ~codec.edited) =>
    /\ codec.result.err = OK
    /\ SameRecords(codec.result.tickets, codec.input.tickets)
    /\ SameRecords(codec.result.comments, codec.input.comments)
    /\ SameRecords(codec.result.dependencies, codec.input.dependencies)

\* The lines of the file that are JSON objects.
ObjectLines == SelectSeq(codec.lines, LAMBDA l : l.syntax = "object")

\* The number of the object lines whose kind by the names they have is k.
LinesOfKind(k) ==
  Cardinality({i \in 1..Len(ObjectLines) : KindRank(ObjectLines[i]) = k})

\* C27: a read that succeeds has decoded every line with the name
\* from_ticket_id as a dependency, every other line with the name ticket_id
\* as a comment, and every line with neither name as a ticket.
C27_ClassifiedByFieldPresence ==
  codec.result.err = OK =>
    /\ Len(codec.result.tickets) = LinesOfKind(1)
    /\ Len(codec.result.comments) = LinesOfKind(2)
    /\ Len(codec.result.dependencies) = LinesOfKind(3)

\* A line that is not JSON, or whose id or ticket_id is not a string.
Unparseable(line) ==
  \/ line.syntax = "garbage"
  \/ line.syntax = "object" /\ line.bad # {}

FirstUnparseable ==
  CHOOSE i \in 1..Len(codec.lines) :
    /\ Unparseable(codec.lines[i])
    /\ \A j \in 1..(i - 1) : ~Unparseable(codec.lines[j])

\* C28: a read of a file with a line that does not parse returns an error
\* with the number of the first such line and no record; an Open that
\* finds the checkpoint different from the modification time of such a
\* file returns an error, gives no Store, and leaves the cache tables and
\* the checkpoint as they were.
C28_UnparseableLineAbortsRead ==
  /\ [](( /\ codec.result # NoRead
          /\ \E i \in 1..Len(codec.lines) : Unparseable(codec.lines[i]) ) =>
          /\ codec.result.err = ErrParse
          /\ codec.result.line = FirstUnparseable
          /\ codec.result.tickets = <<>>
          /\ codec.result.comments = <<>>
          /\ codec.result.dependencies = <<>>)
  /\ [][( /\ store = "closed"
          /\ codec' = codec
          /\ GetJSONLModTime # GetMetadata
          /\ \E i \in 1..Len(codec.lines) : Unparseable(codec.lines[i]) ) =>
          /\ last'.op = "Open"
          /\ last'.res = ErrRead
          /\ store' = "closed"
          /\ UNCHANGED <<cacheVars, metadata>>]_vars

\* C28 witness: the file was opened and its tickets are in the cache; then
\* a line after the first was made unparseable; the read has returned the
\* error with that line's number and Open has returned an error.
C28_Witness ==
  /\ last.op = "Open"
  /\ last.res = ErrRead
  /\ dbTickets # {}
  /\ codec.result.err = ErrParse
  /\ codec.result.line > 1

\* C29: an Open that finds no checkpoint row in the cache and returns nil
\* has rebuilt the cache: the tables hold the records of the log.
C29_NoCheckpointMeansRebuild ==
  [][(store = "closed" /\ metadata = {} /\ last'.op = "Open" /\ last'.res = OK)
       => CacheMatchesLog']_vars

\* The tickets a candidate edge can leave: those of the graph and a ticket
\* that has no dependency yet.
CandidateSources == 1..(MaxTicketID + 2)

\* C30: for every blocked_by graph of the cache, with or without a cycle,
\* and every candidate edge, the search of the cycle check ends; it goes
\* through the blockers of a ticket at most once, it makes at most one
\* call for the start and one for every edge of the graph, and its answer
\* is whether the source of the edge is reached from its target.
C30_CycleCheckExpandsEachTicketOnce ==
  \A fromID \in CandidateSources, toID \in GraphTicketIDs :
    LET r == cycleSearch(fromID, toID)
    IN /\ \A i, j \in 1..Len(r.expanded) : r.expanded[i] = r.expanded[j] => i = j
       /\ Range(r.expanded) \subseteq GraphTicketIDs
       /\ r.calls <= 1 + Cardinality(BlockedByEdges(GetBlockingDependencies))
       /\ r.found <=>
            \/ fromID = toID
            \/ fromID \in ReachableFrom(BlockedByEdges(GetBlockingDependencies),
                                        toID)

\* C30 witness: the graph holds a cycle and a ticket with two blockers; a
\* search for a ticket outside the graph starts on the cycle, goes through
\* the blockers of every ticket and finds nothing.
C30_Witness ==
  LET edges == BlockedByEdges(GetBlockingDependencies)
      r == cycleSearch(MaxTicketID + 2, 1)
  IN /\ {<<1, 2>>, <<2, 1>>, <<1, 3>>, <<2, 3>>} \subseteq edges
     /\ ~r.found
     /\ Len(r.expanded) = Cardinality(GraphTicketIDs)

\* Every write after the first follows the write before it within the
\* debounce interval.
Burst ==
  \A i \in 2..Len(watch.writes) :
    watch.writes[i] - watch.writes[i - 1] < Debounce

\* At most one message was delivered, and no write came after it.
OneMessageAfterLastWrite ==
  /\ Len(watch.received) <= 1
  /\ \A i \in 1..Len(watch.received) :
       watch.received[i].writes = Len(watch.writes)

C32_NoMessageAfterCleanup ==
  \A i \in 1..Len(watch.received) : ~watch.received[i].afterCleanup

\* C35: no callback of a timer sends on the notification channel after the
\* channel was closed: no send panics.
C35_NoSendOnClosedChannel ==
  ~watch.panicked

\* C33: between the calls on the Store, whenever the stored checkpoint is
\* the modification time of the log, the cache tables hold exactly the
\* records of the log.
C33_CheckpointMeansCacheMatchesLog ==
  metadata = {modTime} => CacheMatchesLog

\* C37: whenever the list view holds tickets, 0 <= offset <= cursor <
\* number of tickets, the selected row is among the rows drawn, and View has
\* not read outside the list.
C37_CursorAndOffsetInsideList ==
  /\ ~tui.crashed
  /\ Len(tui.tickets) > 0 =>
       /\ 0 <= tui.offset
       /\ tui.offset <= tui.cursor
       /\ tui.cursor < Len(tui.tickets)
       /\ tui.cursor < tui.offset + visibleRows(tui)

\* C36: for every open ticket of the cache and every order in which the
\* table may be scanned, IsBlocked is false exactly when the list returned by
\* ListReadyTickets holds the ticket.
C36_NotBlockedIffInReadyList ==
  \A t \in dbTickets :
    t.status = StatusOpen =>
      \A scan \in TableScans :
        ~IsBlocked(t.id) <=>
          \E i \in 1..Len(ListReadyTickets(scan)) :
            ListReadyTickets(scan)[i].id = t.id

\* C36 witness: an open ticket with an open blocker, and an open ticket of
\* the ready list whose only blocked_by row leads to a closed ticket or to
\* no ticket at all.
C36_Witness ==
  \E x, y \in dbTickets :
    /\ x.status = StatusOpen /\ IsBlocked(x.id)
    /\ y.status = StatusOpen /\ ~IsBlocked(y.id)
    /\ \E d \in dbDependencies :
         /\ d.from_ticket_id = y.id /\ d.type = DependencyBlockedBy
         /\ \/ GetTicket(d.to_ticket_id) = NoTicket
            \/ GetTicket(d.to_ticket_id).status = StatusClosed
    /\ \A scan \in TableScans :
         \E i \in 1..Len(ListReadyTickets(scan)) :
           ListReadyTickets(scan)[i].id = y.id

\* C39: when the add command returns the error of a link, the log holds
\* what it held when the command began: neither the new ticket nor a link.
C39_FailedLinkPersistsNothing ==
  (cmd.pc = "returning" /\ cmd.err # OK /\ cmd.at = "link") =>
    jsonl = cmd.start

\* C34: in the program no Store call (the sync on a file change, the load of
\* the list, Get and Update of the close command) has started while another
\* Store call was between its write of the log and its checkpoint.
C34_StoreCallsSerialized == ~tui.overlap

\* C38: the close command has not panicked on a ticket that the cache no
\* longer holds.
C38_CloseOfMissingTicketDoesNotCrash ==
  ~(/\ tui.crashed
    /\ \E c \in tui.cmds :
         c.kind = "close" /\ c.pc = "start" /\ GetTicket(c.id) = NoTicket)

\* The list view shows the tickets of the log, each with its status.
ListShowsLog ==
  {<<t.id, t.status>> : t \in Range(tui.tickets)} =
    {<<t.id, t.status>> : t \in Range(jsonl.tickets)}

\* C40: while the program runs, a rewrite of the log by another process is
\* followed by a state in which a FileChangedMsg has been handled and the
\* list view shows what the log holds (or the program has panicked, which
\* is C38's subject).
C40_ExternalWriteLeadsToListOfLog ==
  (last.op = "WatchedRewrite") ~>
    ((tui.synced > 0 /\ ListShowsLog) \/ tui.crashed)

====
